---- MODULE Spec2Model ----
(***************************************************************************)
(* A model of the ML-enhanced Snort runner:                                *)
(*   - AlertMonitor (ml_runner/ml_enhanced_runner.py): tails the alert log *)
(*   - SnortRuleManager (ml_runner/rule_generator.py): deploys rules into   *)
(*     the rules file with backup, config test, reload and restore         *)
(*   - SnortRuleGenerator (ml_runner/rule_generator.py): allocates SIDs     *)
(*   - MLEnhancedRunner (ml_runner/ml_enhanced_runner.py): batching,       *)
(*     flushes, history files, run() and the shutdown                      *)
(*   - MLAnalysisManager and the analyzers (ml_runner/ml_analyzer.py)      *)
(*   - SnortAlertParser (ml_runner/alert_parser.py): parsing and features  *)
(*   - MLRunnerConfig (ml_runner/config.py): to_file and from_file         *)
(* Each component has its own next-state relation and specification; the  *)
(* variables of the other components stay unchanged under it.             *)
(***************************************************************************)
EXTENDS Integers, Sequences, FiniteSets, TLC

VARIABLES
    \* ---- the alert log and its external writer
    alert_file,      \* content of config.snort_alert_file, a sequence of characters
    file_exists,     \* whether the alert log exists on disk
    nextLine,        \* writer: id of the next line it will write
    partial,         \* writer: id of the line it has half-written, 0 when none
    \* ---- AlertMonitor
    last_position,   \* AlertMonitor.last_position
    running,         \* AlertMonitor.running
    monPc,           \* position of start_monitoring: "init", "idle", "statted", "stopped"
    current_size,    \* _read_new_alerts' local current_size, between getsize and read
    returned,        \* every line handed to the callback, in order
    lastPoll,        \* outcome of the most recent finished _read_new_alerts call
    tailHist,        \* history of the tailer: start marks, shrink and split flags
    \* ---- the rules file, its backups and SnortRuleManager.add_rules
    rules_exists,    \* whether self.rules_file exists
    rules_content,   \* lines of self.rules_file
    rules_mtime,     \* modification time of self.rules_file
    backups,         \* backup files: timestamp suffix -> [content, mtime]
    now,             \* wall clock in seconds (datetime.now(), as used in backup names)
    mclock,          \* file-system modification clock (finer than seconds)
    depPc,           \* position of add_rules: "idle", "backed_up", "appended", "tested"
    rules,           \* add_rules' argument
    valid_rules,     \* add_rules' local valid_rules
    result,          \* what the last add_rules call returned: "none", "true", "false"
    call,            \* history of the current / last add_rules call
    validated,       \* deployment ids whose configuration test passed
    applied,         \* the runner's stats['rules_generated'], its rule history file,
                     \* and the rules deployed so far
    \* ---- the rules directory at start-up and SnortRuleGenerator
    rules_dir,       \* files of config.snort_config_dir/rules when the generator is built
    next_sid,        \* SnortRuleGenerator.next_sid
    genPc,           \* "new" before __init__, "ready" after
    issued,          \* SIDs of the rules the generator returned, in order
    \* ---- MLEnhancedRunner: the batch window
    elapsed,         \* datetime.now() - self.last_batch_process, in seconds
    alert_batch,     \* MLEnhancedRunner.alert_batch: ids of the alerts in the window
    nextAlert,       \* id of the next alert to be parsed
    polls,           \* polls that brought alerts so far
    shutdown,        \* shutdown_event is set
    flush,           \* per task: where its _process_alert_batch call is, and its items
    loop_task,       \* task holding the event loop inside a stretch without await
    reports,         \* statistics reports made
    lastDecision,    \* the evaluation of a flush condition made by the last step
    lastEnd,         \* the end of a flush made by the last step
    flushedMax,      \* history: highest alert id some flush has taken
    lost,            \* history: alerts cleared from the window that no flush had taken
    \* ---- MLAnalysisManager
    mgr,             \* per task: the manager of its flush, its calls and their results
    paired,          \* the (alert, result) pairs processed by the last step
    \* ---- OpenAIAnalyzer
    analyzer,        \* the analyzer's counters and its current / last analyze_alert call
    \* ---- rule synthesis
    synth,           \* the generate_rule_from_ml_analysis calls made by the last step
    \* ---- AlertFeatureExtractor
    features,        \* the alert record given to extract_features and what it gave
    \* ---- AlertParser
    parser,          \* the parser's counters, the lines to come and its last call
    \* ---- MLRunnerConfig
    cfg,             \* a configuration, the file to_file wrote from it and what from_file loaded
    \* ---- the history files of MLEnhancedRunner
    hist,            \* the two history files, the day, and the last write
    \* ---- MLEnhancedRunner.run and shutdown
    runner           \* run(): its position, the signals handled, the event, its three tasks, the final statistics writes

tailVars == <<alert_file, file_exists, nextLine, partial, last_position, running,
              monPc, current_size, returned, lastPoll, tailHist>>
depVars  == <<rules_exists, rules_content, rules_mtime, backups, now, mclock, depPc,
              rules, valid_rules, result, call, validated, applied>>
sidVars  == <<rules_dir, next_sid, genPc, issued>>
batchVars == <<elapsed, alert_batch, nextAlert, polls, shutdown, flush,
               loop_task, reports, lastDecision, lastEnd, flushedMax, lost>>
anVars   == <<mgr, paired>>
retryVars == <<analyzer>>
synthVars == <<synth>>
featVars == <<features>>
parseVars == <<parser>>
cfgVars == <<cfg>>
histVars == <<hist>>
runVars == <<runner>>
vars     == <<tailVars, depVars, sidVars, batchVars, anVars, retryVars, synthVars,
              featVars, parseVars, cfgVars, histVars, runVars>>
\* what a step of one component leaves alone
othersOfTail   == <<depVars, sidVars, batchVars, anVars, retryVars, synthVars, featVars, parseVars, cfgVars, histVars, runVars>>
othersOfDeploy == <<tailVars, sidVars, batchVars, anVars, retryVars, synthVars, featVars, parseVars, cfgVars, histVars, runVars>>
othersOfSid    == <<tailVars, depVars, batchVars, anVars, retryVars, synthVars, featVars, parseVars, cfgVars, histVars, runVars>>
othersOfBatch  == <<tailVars, depVars, sidVars, anVars, retryVars, synthVars, featVars, parseVars, cfgVars, histVars, runVars>>
othersOfAnalyze == <<tailVars, depVars, sidVars, batchVars, retryVars, synthVars, featVars, parseVars, cfgVars, histVars, runVars>>
othersOfRetry  == <<tailVars, depVars, sidVars, batchVars, anVars, synthVars, featVars, parseVars, cfgVars, histVars, runVars>>
othersOfSynth  == <<tailVars, depVars, batchVars, anVars, retryVars, featVars, parseVars, cfgVars, histVars, runVars>>
othersOfFeatures == <<tailVars, depVars, sidVars, batchVars, anVars, retryVars, synthVars, parseVars, cfgVars, histVars, runVars>>
othersOfParse  == <<tailVars, depVars, sidVars, batchVars, anVars, retryVars, synthVars, featVars, cfgVars, histVars, runVars>>
othersOfConfig == <<tailVars, depVars, sidVars, batchVars, anVars, retryVars, synthVars, featVars, parseVars, histVars, runVars>>
othersOfHistory == <<tailVars, depVars, sidVars, batchVars, anVars, retryVars, synthVars, featVars, parseVars, cfgVars, runVars>>
othersOfRun == <<tailVars, depVars, sidVars, anVars, retryVars, synthVars, featVars, parseVars, cfgVars, histVars>>

(***************************************************************************)
(* Bounds of the model.                                                    *)
(***************************************************************************)
MaxLines == 3
\* lines (whole, blank or split in two writes) the writer puts into the log

Min(a, b) == IF a <= b THEN a ELSE b
Max(a, b) == IF a >= b THEN a ELSE b

(***************************************************************************)
(* The alert log.  A character is NL (the line terminator), SP (white      *)
(* space) or a payload character; line k is written as the two payload     *)
(* characters 2k-1 and 2k followed by NL.                                  *)
(***************************************************************************)
NL == 0
SP == -1
First(k)  == 2 * k - 1
Second(k) == 2 * k
LineOf(c) == (c + 1) \div 2
WholeLine(k) == <<First(k), Second(k)>>

\* str.split('\n'): the pieces between terminators, the piece after the last
\* terminator included (empty when the text ends with a terminator).
RECURSIVE SplitFrom(_, _)
SplitFrom(s, cur) ==
    IF s = <<>> THEN <<cur>>
    ELSE IF Head(s) = NL THEN <<cur>> \o SplitFrom(Tail(s), <<>>)
    ELSE SplitFrom(Tail(s), Append(cur, Head(s)))
Split(s) == SplitFrom(s, <<>>)

\* str.strip(): leading and trailing white space removed.
RECURSIVE LStrip(_)
LStrip(s) == IF s # <<>> /\ Head(s) = SP THEN LStrip(Tail(s)) ELSE s
RECURSIVE RStrip(_)
RStrip(s) == IF s # <<>> /\ s[Len(s)] = SP THEN RStrip(SubSeq(s, 1, Len(s) - 1)) ELSE s
Strip(s) == RStrip(LStrip(s))

\* [line.strip() for line in new_content.split('\n') if line.strip()]
NewAlerts(new_content) ==
    LET pieces == Split(new_content)
        stripped == [i \in 1..Len(pieces) |-> Strip(pieces[i])]
    IN SelectSeq(stripped, LAMBDA l: l # <<>>)

\* f.seek(pos); f.read(): everything from byte pos to the end of the file as
\* it is at the time of the read (nothing when pos is at or past the end).
ReadFrom(pos) == SubSeq(alert_file, pos + 1, Len(alert_file))

(***************************************************************************)
(* The external writer of the alert log (the sensor) and log rotation.     *)
(***************************************************************************)
CanWrite == nextLine <= MaxLines /\ partial = 0

\* The sensor appends one complete, terminated line.
AppendLine ==
    /\ CanWrite
    /\ alert_file' = alert_file \o <<First(nextLine), Second(nextLine), NL>>
    /\ file_exists' = TRUE
    /\ nextLine' = nextLine + 1
    /\ UNCHANGED <<partial, last_position, running, monPc, current_size, returned,
                   lastPoll, tailHist>>
    /\ UNCHANGED othersOfTail

\* The sensor appends a line of white space only.
AppendBlank ==
    /\ CanWrite
    /\ alert_file' = alert_file \o <<SP, NL>>
    /\ file_exists' = TRUE
    /\ nextLine' = nextLine + 1
    /\ UNCHANGED <<partial, last_position, running, monPc, current_size, returned,
                   lastPoll, tailHist>>
    /\ UNCHANGED othersOfTail

\* The sensor's write of a line reaches the file in two parts: the first part,
\* without terminator ...
BeginLine ==
    /\ CanWrite
    /\ alert_file' = Append(alert_file, First(nextLine))
    /\ file_exists' = TRUE
    /\ partial' = nextLine
    /\ nextLine' = nextLine + 1
    /\ tailHist' = [tailHist EXCEPT !.split = TRUE]
    /\ UNCHANGED <<last_position, running, monPc, current_size, returned, lastPoll>>
    /\ UNCHANGED othersOfTail

\* ... and the rest of the line with its terminator.
EndLine ==
    /\ partial # 0
    /\ alert_file' = alert_file \o <<Second(partial), NL>>
    /\ file_exists' = TRUE
    /\ partial' = 0
    /\ UNCHANGED <<nextLine, last_position, running, monPc, current_size, returned,
                   lastPoll, tailHist>>
    /\ UNCHANGED othersOfTail

\* The log is truncated in place (copytruncate rotation).  The log shrinks at
\* most once before monitoring starts and once after.
Truncate ==
    /\ ~tailHist.shrunk
    /\ file_exists
    /\ alert_file # <<>>
    /\ alert_file' = <<>>
    /\ tailHist' = [tailHist EXCEPT !.shrunk = TRUE]
    /\ UNCHANGED <<file_exists, nextLine, partial, last_position, running, monPc,
                   current_size, returned, lastPoll>>
    /\ UNCHANGED othersOfTail

\* The log is moved away (rotation by rename); the next write recreates it.
Rotate ==
    /\ ~tailHist.shrunk
    /\ file_exists
    /\ alert_file # <<>>
    /\ alert_file' = <<>>
    /\ file_exists' = FALSE
    /\ tailHist' = [tailHist EXCEPT !.shrunk = TRUE]
    /\ UNCHANGED <<nextLine, partial, last_position, running, monPc, current_size,
                   returned, lastPoll>>
    /\ UNCHANGED othersOfTail

(***************************************************************************)
(* AlertMonitor.                                                           *)
(***************************************************************************)
NoPoll == [kind |-> "none", before |-> 0, size |-> 0, after |-> 0, ret |-> <<>>,
           afterFail |-> FALSE]

\* History: what the log held when monitoring started.  startLine is the first
\* line not complete in the file at that time, firstNew the first line begun
\* after it.
StartMarks ==
    [tailHist EXCEPT !.started = TRUE,
                     !.startSize = IF file_exists THEN Len(alert_file) ELSE 0,
                     !.startLine = IF partial # 0 THEN partial ELSE nextLine,
                     !.firstNew = nextLine,
                     !.shrunk = FALSE]

\* Variant of StartMonitoring that leaves the cursor at the start of the file.
StartMonitoringAtZero ==
    /\ monPc = "init"
    /\ running' = TRUE
    /\ monPc' = "idle"
    /\ tailHist' = StartMarks
    /\ UNCHANGED <<alert_file, file_exists, nextLine, partial, last_position,
                   current_size, returned, lastPoll>>
    /\ UNCHANGED othersOfTail

\* start_monitoring up to its loop: running is set and the cursor is put at
\* the current end of the file.
StartMonitoring ==
    /\ monPc = "init"
    /\ running' = TRUE
    /\ last_position' = IF file_exists THEN Len(alert_file) ELSE last_position
    /\ monPc' = "idle"
    /\ tailHist' = StartMarks
    /\ UNCHANGED <<alert_file, file_exists, nextLine, partial, current_size, returned,
                   lastPoll>>
    /\ UNCHANGED othersOfTail

\* A _read_new_alerts call that ends without reading: its result is [] and the
\* cursor is not touched.
PollEnds(kind, size) ==
    /\ lastPoll' = [kind |-> kind, before |-> last_position, size |-> size,
                    after |-> last_position, ret |-> <<>>,
                    afterFail |-> (lastPoll.kind = "fail")]
    /\ monPc' = "idle"
    /\ UNCHANGED <<last_position, returned, running, tailHist>>

\* Variant of ReadFailure in which the cursor was moved before the read raised.
ReadFailureAdvances ==
    /\ lastPoll' = [kind |-> "fail", before |-> last_position, size |-> current_size,
                    after |-> current_size, ret |-> <<>>,
                    afterFail |-> (lastPoll.kind = "fail")]
    /\ last_position' = current_size
    /\ monPc' = "idle"
    /\ UNCHANGED <<returned, running, tailHist>>

\* An exception inside the try block of _read_new_alerts (getsize, open or
\* read raised): logged, [] returned.
ReadFailure == PollEnds("fail", current_size)

\* The with-block of _read_new_alerts and what follows it: read from the cursor
\* to the end of the file, move the cursor to the size seen before the read,
\* split, and hand the lines to the callback when there are any.
ReadSuccess ==
    LET new_content == ReadFrom(last_position)
        new_alerts  == NewAlerts(new_content)
    IN /\ last_position' = current_size
       /\ lastPoll' = [kind |-> "read", before |-> last_position, size |-> current_size,
                       after |-> current_size, ret |-> new_alerts,
                       afterFail |-> (lastPoll.kind = "fail")]
       /\ returned' = returned \o new_alerts
       /\ monPc' = "idle"
       /\ UNCHANGED <<running, tailHist>>

\* One iteration of the monitoring loop up to the size check of
\* _read_new_alerts: the file may be absent, getsize may raise, the size may
\* be at or below the cursor, or the call goes on to read.
PollStat ==
    /\ monPc = "idle"
    /\ running
    /\ IF ~file_exists
       THEN PollEnds("absent", 0) /\ UNCHANGED current_size
       ELSE \E ok \in BOOLEAN :
              IF ~ok
              THEN PollEnds("fail", 0) /\ UNCHANGED current_size
              ELSE IF Len(alert_file) <= last_position
                   THEN PollEnds("skip", Len(alert_file)) /\ UNCHANGED current_size
                   ELSE /\ current_size' = Len(alert_file)
                        /\ monPc' = "statted"
                        /\ UNCHANGED <<last_position, returned, running, lastPoll, tailHist>>
    /\ UNCHANGED <<alert_file, file_exists, nextLine, partial>>
    /\ UNCHANGED othersOfTail

\* The rest of the same _read_new_alerts call: open, seek, read; the call
\* returns and its local current_size goes away.
PollRead ==
    /\ monPc = "statted"
    /\ \E ok \in BOOLEAN :
         IF ~ok \/ ~file_exists THEN ReadFailure ELSE ReadSuccess
    /\ current_size' = 0
    /\ UNCHANGED <<alert_file, file_exists, nextLine, partial>>
    /\ UNCHANGED othersOfTail

\* AlertMonitor.stop, called from the _shutdown coroutine: it runs while the
\* monitoring task is suspended in its sleep, never inside _read_new_alerts,
\* which has no suspension point.
Stop ==
    /\ monPc = "idle"
    /\ running
    /\ running' = FALSE
    /\ UNCHANGED <<alert_file, file_exists, nextLine, partial, last_position, monPc,
                   current_size, returned, lastPoll, tailHist>>
    /\ UNCHANGED othersOfTail

\* The while condition of start_monitoring is the only way out of the loop.
LoopExit ==
    /\ monPc = "idle"
    /\ ~running
    /\ monPc' = "stopped"
    /\ UNCHANGED <<alert_file, file_exists, nextLine, partial, last_position, running,
                   current_size, returned, lastPoll, tailHist>>
    /\ UNCHANGED othersOfTail

InitTail ==
    /\ alert_file = <<>>
    /\ file_exists = TRUE
    /\ nextLine = 1
    /\ partial = 0
    /\ last_position = 0
    /\ running = FALSE
    /\ monPc = "init"
    /\ current_size = 0
    /\ returned = <<>>
    /\ lastPoll = NoPoll
    /\ tailHist = [started |-> FALSE, startSize |-> 0, startLine |-> 0, firstNew |-> 0,
                   shrunk |-> FALSE, split |-> FALSE]

NextTail ==
    \/ AppendLine \/ AppendBlank \/ BeginLine \/ EndLine \/ Truncate \/ Rotate
    \/ StartMonitoring \/ PollStat \/ PollRead \/ Stop \/ LoopExit

(***************************************************************************)
(* Rules and their validation (SnortRuleGenerator.validate_rule).          *)
(* The rendered text of a rule is kept as its tokens: action, protocol,    *)
(* direction, the class of its option text ("opts": non-empty and without  *)
(* a closing parenthesis, "paren": holding one, "": empty) and the SID     *)
(* written in it.  Addresses and ports are non-blank tokens in every rule  *)
(* considered here.                                                        *)
(***************************************************************************)
RawRule(action, protocol, direction, body, sid) ==
    [action |-> action, protocol |-> protocol, direction |-> direction,
     body |-> body, sid |-> sid]

\* ^(alert|drop|reject|pass)\s+\w+\s+\S+\s+\S+\s+[<>-]+\s+\S+\s+\S+\s+\([^)]+\);?$
RuleActions == {"alert", "drop", "reject", "pass"}
WordTokens  == {"tcp", "udp", "icmp", "ip"}
DirTokens   == {"->", "<>", "<-"}
SyntaxMatch(raw_rule) ==
    /\ raw_rule.action \in RuleActions
    /\ raw_rule.protocol \in WordTokens
    /\ raw_rule.direction \in DirTokens
    /\ raw_rule.body = "opts"

required_options == {"msg", "sid"}

validate_rule(rule) ==
    /\ SyntaxMatch(rule.raw_rule)
    /\ \A opt \in required_options : opt \in rule.options

\* SnortRuleManager._validate_and_log_rule: validate_rule of a fresh generator.
validate_and_log_rule(rule) == validate_rule(rule)

\* Variant of ValidRules that keeps every candidate, accepted or not.
ValidRulesUnfiltered(rs) == rs

\* valid_rules = [rule for rule in rules if self._validate_and_log_rule(rule)]
ValidRules(rs) == SelectSeq(rs, validate_and_log_rule)

\* The candidate rules add_rules is called with.
Candidates ==
    { [sid |-> 1, raw_rule |-> RawRule("alert", "tcp", "->", "opts", 1),
       options |-> {"msg", "sid", "rev"}],
      [sid |-> 2, raw_rule |-> RawRule("drop", "udp", "->", "opts", 2),
       options |-> {"msg", "sid"}],
      [sid |-> 3, raw_rule |-> RawRule("log", "tcp", "->", "opts", 3),
       options |-> {"msg", "sid"}],
      [sid |-> 4, raw_rule |-> RawRule("alert", "tcp", "->", "opts", 4),
       options |-> {"msg"}] }

MaxBatch == 2
\* candidates in one add_rules call
MaxDeploys == 1
\* add_rules calls
MaxTime == 1
\* seconds the wall clock advances

RECURSIVE SeqsUpTo(_, _)
SeqsUpTo(S, n) ==
    IF n = 0 THEN {<<>>}
    ELSE LET shorter == SeqsUpTo(S, n - 1)
         IN shorter \cup {Append(q, x) : q \in {r \in shorter : Len(r) = n - 1}, x \in S}
\* The rules of one batch come from one generator, which gives each rule its
\* own SID: a batch holds no candidate twice.
Batches ==
    {rs \in SeqsUpTo(Candidates, MaxBatch) \ {<<>>} :
        \A i, j \in DOMAIN rs : i # j => rs[i].sid # rs[j].sid}

(***************************************************************************)
(* The rules file.  A line is a comment header written by one deployment,  *)
(* a blank line, or the text of a rule.                                    *)
(***************************************************************************)
NoRaw == RawRule("", "", "", "", 0)
HeaderLine(dep) == [kind |-> "hdr", dep |-> dep, raw |-> NoRaw]
BlankLine       == [kind |-> "blank", dep |-> 0, raw |-> NoRaw]
RuleLine(rule)  == [kind |-> "rule", dep |-> 0, raw |-> rule.raw_rule]

\* What the with-block of add_rules writes: "\n# ML-Generated Rules - <time>\n",
\* each rule's raw_rule and "\n", then "\n".
Written(dep, rs) ==
    <<BlankLine, HeaderLine(dep)>> \o [i \in 1..Len(rs) |-> RuleLine(rs[i])] \o <<BlankLine>>

backup_count == 5

Restrict(f, S) == [x \in S |-> f[x]]

\* Variant of BackupRulesFile whose clean-up keeps the backups of earliest
\* modification time.
BackupKeepsOldest(after) ==
    IF ~rules_exists THEN after = backups
    ELSE LET copied == [n \in DOMAIN backups \cup {now} |->
                          IF n = now THEN [content |-> rules_content, mtime |-> rules_mtime]
                          ELSE backups[n]]
             names == DOMAIN copied
         IN \E keep \in SUBSET names :
               /\ Cardinality(keep) = Min(backup_count, Cardinality(names))
               /\ \A k \in keep, r \in names \ keep : copied[k].mtime <= copied[r].mtime
               /\ after = Restrict(copied, keep)

\* _backup_rules_file: when the rules file exists, copy2 it (content and
\* modification time) to <rules_file>.backup.<now to the second>, then
\* _cleanup_old_backups: keep the backup_count backups of latest modification
\* time; among equal times the directory order decides.
BackupRulesFile(after) ==
    IF ~rules_exists THEN after = backups
    ELSE LET copied == [n \in DOMAIN backups \cup {now} |->
                          IF n = now THEN [content |-> rules_content, mtime |-> rules_mtime]
                          ELSE backups[n]]
             names == DOMAIN copied
         IN \E keep \in SUBSET names :
               /\ Cardinality(keep) = Min(backup_count, Cardinality(names))
               /\ \A k \in keep, r \in names \ keep : copied[k].mtime >= copied[r].mtime
               /\ after = Restrict(copied, keep)

\* _restore_backup: copy2 the backup of latest modification time over the
\* rules file; nothing when there is no backup.
RestoreBackup ==
    IF DOMAIN backups = {}
    THEN UNCHANGED <<rules_exists, rules_content, rules_mtime>>
    ELSE \E latest \in DOMAIN backups :
           /\ \A b \in DOMAIN backups : backups[latest].mtime >= backups[b].mtime
           /\ rules_content' = backups[latest].content
           /\ rules_mtime' = backups[latest].mtime
           /\ rules_exists' = TRUE

\* _test_snort_config: true only when the check ran and exited 0.
Outcomes == {"ok", "nonzero", "timeout", "error"}
test_snort_config(outcome) == outcome = "ok"

\* _reload_snort: systemctl reload first; on a non-zero exit, pkill -HUP; a
\* timeout or an error of either command ends in the except clauses.
reload_snort(primary, fallback) ==
    IF primary = "ok" THEN TRUE
    ELSE IF primary = "nonzero" THEN fallback = "ok"
    ELSE FALSE

\* How many times _reload_snort runs pkill -HUP: once, in the else branch of
\* the primary's return code; an exception of the primary skips it.
fallback_runs(primary) == IF primary = "nonzero" THEN 1 ELSE 0

NoCall == [id |-> 0, pre_exists |-> FALSE, pre_content |-> <<>>, wrote |-> FALSE,
           test |-> "none", reload |-> "none", primary |-> "none", fallback_runs |-> 0,
           backed |-> FALSE, at |-> 0, pre_mtime |-> 0, pre_backups |-> <<>>,
           pre_applied |-> [rules_generated |-> 0, rule_history |-> 0, deployed |-> 0]]

\* _save_rule_history: one entry per rule is appended to the history file, of
\* which the number of entries is kept; an error of the write is logged and
\* the file is left alone.
SaveRuleHistory(history, new_rules, saved) ==
    IF saved THEN history + Len(new_rules) ELSE history

\* The rules a returning add_rules call has deployed: the accepted rules it
\* appended (valid_rules is empty until the backup step), when it returns
\* True.
Deployed(value) == IF value = "true" THEN Len(valid_rules) ELSE 0

\* Variant of Return in which the caller counts and saves the rules whatever
\* add_rules returned.
ReturnAlwaysCounts(new_rules, value) ==
    /\ result' = value
    /\ depPc' = "idle"
    /\ rules' = <<>>
    /\ valid_rules' = <<>>
    /\ \E saved \in BOOLEAN :
         applied' = [rules_generated |-> applied.rules_generated + Len(new_rules),
                     rule_history |-> SaveRuleHistory(applied.rule_history,
                                                      new_rules, saved),
                     deployed |-> applied.deployed + Deployed(value)]

\* add_rules returns to _generate_and_apply_rules: its locals go away; on
\* success the caller adds len(new_rules) to stats['rules_generated'] and saves
\* new_rules to the rule history, on failure it only logs.
Return(new_rules, value) ==
    /\ result' = value
    /\ depPc' = "idle"
    /\ rules' = <<>>
    /\ valid_rules' = <<>>
    /\ \E saved \in (IF value = "true" THEN BOOLEAN ELSE {FALSE}) :
         applied' = IF value = "true"
                    THEN [rules_generated |-> applied.rules_generated + Len(new_rules),
                          rule_history |-> SaveRuleHistory(applied.rule_history,
                                                           new_rules, saved),
                          deployed |-> applied.deployed + Deployed(value)]
                    ELSE applied

\* add_rules up to the write: validation of the candidates, the early return
\* when none is valid, the backup.
AddRulesBegin ==
    /\ depPc = "idle"
    /\ call.id < MaxDeploys
    /\ \E rs \in Batches :
         LET vs == ValidRules(rs)
         IN /\ call' = [NoCall EXCEPT !.id = call.id + 1,
                                      !.pre_exists = rules_exists,
                                      !.pre_content = rules_content,
                                      !.backed = (vs # <<>> /\ rules_exists),
                                      !.at = now,
                                      !.pre_mtime = rules_mtime,
                                      !.pre_backups = backups,
                                      !.pre_applied = applied]
            /\ IF vs = <<>>
               THEN Return(rs, "true") /\ UNCHANGED backups
               ELSE /\ rules' = rs
                    /\ valid_rules' = vs
                    /\ BackupRulesFile(backups')
                    /\ depPc' = "backed_up"
                    /\ UNCHANGED <<result, applied>>
    /\ UNCHANGED <<rules_exists, rules_content, rules_mtime, now, mclock, validated>>
    /\ UNCHANGED othersOfDeploy

\* The with-block of add_rules: the accepted rules are appended to the rules
\* file itself.
AppendRules ==
    /\ depPc = "backed_up"
    /\ rules_content' = (IF rules_exists THEN rules_content ELSE <<>>)
                           \o Written(call.id, valid_rules)
    /\ rules_exists' = TRUE
    /\ mclock' = mclock + 1
    /\ rules_mtime' = mclock + 1
    /\ call' = [call EXCEPT !.wrote = TRUE]
    /\ depPc' = "appended"
    /\ UNCHANGED <<backups, now, rules, valid_rules, result, validated, applied>>
    /\ UNCHANGED othersOfDeploy

\* open(self.rules_file, 'a') raises: the except clause of add_rules.
AppendFails ==
    /\ depPc = "backed_up"
    /\ Return(rules, "false")
    /\ UNCHANGED <<rules_exists, rules_content, rules_mtime, backups, now, mclock, call,
                   validated>>
    /\ UNCHANGED othersOfDeploy

\* _test_snort_config and, when it fails, _restore_backup and return False.
TestConfig ==
    /\ depPc = "appended"
    /\ \E outcome \in Outcomes :
         IF test_snort_config(outcome)
         THEN /\ call' = [call EXCEPT !.test = "passed"]
              /\ validated' = validated \cup {call.id}
              /\ depPc' = "tested"
              /\ UNCHANGED <<rules_exists, rules_content, rules_mtime, rules, valid_rules,
                             result, applied>>
         ELSE /\ call' = [call EXCEPT !.test = "failed"]
              /\ RestoreBackup
              /\ Return(rules, "false")
              /\ UNCHANGED validated
    /\ UNCHANGED <<backups, now, mclock>>
    /\ UNCHANGED othersOfDeploy

\* return self._reload_snort()
ReloadSnort ==
    /\ depPc = "tested"
    /\ \E primary \in Outcomes :
       \E fallback \in (IF fallback_runs(primary) = 1 THEN Outcomes ELSE {"none"}) :
         LET ok == reload_snort(primary, fallback)
         IN /\ call' = [call EXCEPT !.reload = IF ok THEN "ok" ELSE "failed",
                                      !.primary = primary,
                                      !.fallback_runs = fallback_runs(primary)]
            /\ Return(rules, IF ok THEN "true" ELSE "false")
    /\ UNCHANGED <<rules_exists, rules_content, rules_mtime, backups, now, mclock, validated>>
    /\ UNCHANGED othersOfDeploy

\* A second passes.
Tick ==
    /\ depPc = "idle"
    /\ now < MaxTime
    /\ now' = now + 1
    /\ UNCHANGED <<rules_exists, rules_content, rules_mtime, backups, mclock, depPc, rules,
                   valid_rules, result, call, validated, applied>>
    /\ UNCHANGED othersOfDeploy

\* SnortRuleManager.__init__ creates the rules directory, not the rules file:
\* the file is absent on a fresh installation, or holds what an earlier run or
\* the administrator left in it.
SeedLine == [kind |-> "rule", dep |-> 0, raw |-> RawRule("alert", "ip", "->", "opts", 1000)]
\* Backups left beside an existing rules file by earlier runs, named by times
\* before this run: none; backup_count of them, of distinct modification times, the
\* latest a copy of the present rules file; or backup_count copies of the
\* present rules file, each restored after a failed test (copy2 keeps the
\* modification time, so they all carry the time of the rules file).
NoBackups == <<>>
OldBackups ==
    [n \in (0 - backup_count)..(0 - 1) |->
        IF n = 0 - 1 THEN [content |-> <<SeedLine>>, mtime |-> 0]
        ELSE [content |-> <<>>, mtime |-> n]]
TiedBackups ==
    [n \in (0 - backup_count)..(0 - 1) |-> [content |-> <<SeedLine>>, mtime |-> 0]]
SeedBackups == {NoBackups, OldBackups, TiedBackups}
InitDeployOver(E, B) ==
    /\ rules_exists \in E
    /\ rules_content = IF rules_exists THEN <<SeedLine>> ELSE <<>>
    /\ rules_mtime = 0
    /\ backups \in (IF rules_exists THEN B ELSE {NoBackups})
    /\ now = 0
    /\ mclock = 0
    /\ depPc = "idle"
    /\ rules = <<>>
    /\ valid_rules = <<>>
    /\ result = "none"
    /\ call = NoCall
    /\ validated = {}
    /\ applied = [rules_generated |-> 0, rule_history |-> 0, deployed |-> 0]

NextDeploy ==
    \/ AddRulesBegin \/ AppendRules \/ AppendFails \/ TestConfig \/ ReloadSnort \/ Tick

(***************************************************************************)
(* SnortRuleGenerator: SID allocation.                                     *)
(* A file of the rules directory has a kind ("rules": its name ends with   *)
(* .rules and it can be read; "unreadable": named .rules, open raises;     *)
(* "other": another name) and lines; a line is a comment or not and holds  *)
(* the numbers of its sid:<int> occurrences from left to right.            *)
(***************************************************************************)
rule_sid_start == 2000000

MaxFileLines == 2
\* lines of one file of the rules directory
MaxFiles == 1
\* files of the rules directory
MaxGen == 2
\* rules generated in one process lifetime

DirLines ==
    { [comment |-> FALSE, sids |-> <<>>],
      [comment |-> FALSE, sids |-> <<1000001>>],
      [comment |-> FALSE, sids |-> <<2000001>>],
      [comment |-> FALSE, sids |-> <<5, 2000003>>],
      [comment |-> TRUE,  sids |-> <<2000005>>] }
FileKinds == {"rules", "unreadable", "other"}
DirFiles == [kind : FileKinds, lines : SeqsUpTo(DirLines, MaxFileLines)]
Dirs == SeqsUpTo(DirFiles, MaxFiles)

\* re.search(r'sid:\s*(\d+)', line) on a line that is not empty and no
\* comment: the first occurrence of the line, when it has one.
LineSids(line) ==
    IF ~line.comment /\ line.sids # <<>> THEN {Head(line.sids)} ELSE {}

FileSids(file) ==
    IF file.kind = "rules"
    THEN UNION {LineSids(file.lines[i]) : i \in 1..Len(file.lines)}
    ELSE {}

SetMax(S) == CHOOSE m \in S : \A x \in S : m >= x

\* _load_existing_sids: the value of next_sid it leaves.
load_existing_sids(dir) ==
    LET existing_sids == UNION {FileSids(dir[i]) : i \in 1..Len(dir)}
    IN IF existing_sids # {} /\ SetMax(existing_sids) >= rule_sid_start
       THEN SetMax(existing_sids) + 1
       ELSE rule_sid_start

\* SnortRuleGenerator.__init__
Construct ==
    /\ genPc = "new"
    /\ next_sid' = load_existing_sids(rules_dir)
    /\ genPc' = "ready"
    /\ UNCHANGED <<rules_dir, issued>>
    /\ UNCHANGED othersOfSid

Suggestions == {"none", "match", "nomatch"}

\* _parse_suggested_rule (the suggestion matches the rule pattern) and
\* _generate_rule_from_alert (no suggestion, or one that does not match): the
\* rule gets sid = self.next_sid, then self.next_sid += 1.
AllocateSid ==
    /\ issued' = Append(issued, next_sid)
    /\ next_sid' = next_sid + 1

\* generate_rule_from_ml_analysis: None below the confidence threshold,
\* otherwise one rule from one of the two paths.
GenerateRule ==
    /\ genPc = "ready"
    /\ Len(issued) < MaxGen
    /\ \E confident \in BOOLEAN, suggestion \in Suggestions :
         IF ~confident
         THEN UNCHANGED <<next_sid, issued>>
         ELSE AllocateSid
    /\ UNCHANGED <<rules_dir, genPc>>
    /\ UNCHANGED othersOfSid

InitSidOver(D) ==
    /\ rules_dir \in D
    /\ next_sid = rule_sid_start
    /\ genPc = "new"
    /\ issued = <<>>

NextSid ==
    \/ Construct \/ GenerateRule

(***************************************************************************)
(* MLEnhancedRunner: the batch window and its flushes.  Two tasks of the   *)
(* event loop can call _process_alert_batch: the monitoring task, through  *)
(* its callback _process_new_alerts, and the _batch_processor task.  The   *)
(* event loop runs one task at a time, from one suspension point to the    *)
(* next; loop_task is the task that has the loop between two steps of a    *)
(* stretch of code without suspension point, "none" otherwise.             *)
(***************************************************************************)
max_alerts_per_batch == 10
processing_interval == 5

MaxElapsed == 11
\* seconds counted since last_batch_process; longer times count as this
MaxPolls == 3
\* polls that bring alerts in one run
MaxReports == 1
\* statistics reports

Tasks == {"monitor", "batch"}
\* The steps of add_rules a flush is at, inside _generate_and_apply_rules.
DeployPcs == {"backed_up", "appended", "tested"}
NoFlush == [pc |-> "idle", items |-> <<>>]
NoDecision == [by |-> "none", size |-> 0, elapsed |-> 0, started |-> FALSE]
NoEnd == [kind |-> "none", by |-> "none"]

\* How many alerts one poll brings after parsing.
ArrivalSizes == {1, max_alerts_per_batch - 1}

\* Variant of ArrivalFlushDue with the interval taken once.
ArrivalFlushDueOnce(size, age) ==
    size >= max_alerts_per_batch \/ age > processing_interval

\* len(self.alert_batch) >= config.max_alerts_per_batch or
\* datetime.now() - self.last_batch_process > timedelta(seconds=processing_interval * 2)
ArrivalFlushDue(size, age) ==
    size >= max_alerts_per_batch \/ age > processing_interval * 2

\* self.alert_batch and
\* datetime.now() - self.last_batch_process > timedelta(seconds=processing_interval)
PeriodicFlushDue(size, age) ==
    size > 0 /\ age > processing_interval

\* _process_alert_batch up to its await of analyze_alerts_batch: the window is
\* copied into alerts_with_features and the task is suspended.
FlushBegins(t, window) ==
    /\ flush' = [flush EXCEPT ![t] = [pc |-> "analysing", items |-> window]]
    /\ flushedMax' = Max(flushedMax, window[Len(window)])

\* The clearing of the window by a flush: what the window holds beyond the
\* alerts some flush has taken is gone.
Dropped == {alert_batch[i] : i \in {j \in DOMAIN alert_batch : alert_batch[j] > flushedMax}}

\* The callback of the monitoring task, _process_new_alerts, for a poll whose
\* lines parse into n alerts: the alerts are appended to the window and the
\* flush condition is evaluated.
NewAlertsArrive ==
    /\ loop_task = "none"
    /\ ~shutdown
    /\ flush["monitor"].pc = "idle"
    /\ \E n \in ArrivalSizes :
         LET window  == alert_batch \o [i \in 1..n |-> nextAlert + i - 1]
         IN /\ polls < MaxPolls
            /\ polls' = polls + 1
            /\ nextAlert' = nextAlert + n
            /\ alert_batch' = window
            /\ IF ArrivalFlushDue(Len(window), elapsed)
               THEN FlushBegins("monitor", window)
               ELSE UNCHANGED <<flush, flushedMax>>
            /\ lastDecision' = [by |-> "arrival", size |-> Len(window),
                                elapsed |-> elapsed,
                                started |-> (flush'["monitor"].pc = "analysing")]
    /\ lastEnd' = NoEnd
    /\ UNCHANGED <<elapsed, shutdown, loop_task, reports, lost>>
    /\ UNCHANGED othersOfBatch

\* One iteration of _batch_processor after its sleep.
PeriodicCheck ==
    /\ loop_task = "none"
    /\ ~shutdown
    /\ flush["batch"].pc = "idle"
    /\ IF PeriodicFlushDue(Len(alert_batch), elapsed)
       THEN FlushBegins("batch", alert_batch)
       ELSE UNCHANGED <<flush, flushedMax>>
    /\ lastDecision' = [by |-> "periodic", size |-> Len(alert_batch),
                        elapsed |-> elapsed,
                        started |-> (flush'["batch"].pc = "analysing")]
    /\ lastEnd' = NoEnd
    /\ UNCHANGED <<elapsed, alert_batch, nextAlert, polls, shutdown, loop_task, reports, lost>>
    /\ UNCHANGED othersOfBatch

\* The normal end of _process_alert_batch: self.alert_batch = [] and
\* self.last_batch_process = datetime.now().
FlushCompletes(t) ==
    /\ alert_batch' = <<>>
    /\ elapsed' = 0
    /\ lost' = lost \cup Dropped
    /\ flush' = [flush EXCEPT ![t] = NoFlush]
    /\ lastEnd' = [kind |-> "completed", by |-> t]
    /\ loop_task' = "none"

\* The except clause of _process_alert_batch: the window is cleared.
FlushAborts(t) ==
    /\ alert_batch' = <<>>
    /\ lost' = lost \cup Dropped
    /\ flush' = [flush EXCEPT ![t] = NoFlush]
    /\ lastEnd' = [kind |-> "aborted", by |-> t]
    /\ loop_task' = "none"
    /\ UNCHANGED elapsed

\* The await of analyze_alerts_batch returns to a flush.  The manager could
\* not be entered or left (an exception: the flush aborts); or the results are
\* there and none leads to a rule (the flush completes); or
\* _generate_and_apply_rules calls add_rules, which takes its backup.
AnalysisReturns ==
    /\ loop_task = "none"
    /\ \E t \in Tasks :
         /\ flush[t].pc = "analysing"
         /\ \E outcome \in {"exception", "no_rules", "rules"} :
              CASE outcome = "exception" -> FlushAborts(t)
                [] outcome = "no_rules"  -> FlushCompletes(t)
                [] outcome = "rules"     ->
                     /\ flush' = [flush EXCEPT ![t].pc = "backed_up"]
                     /\ loop_task' = t
                     /\ lastEnd' = NoEnd
                     /\ UNCHANGED <<alert_batch, elapsed, lost>>
    /\ lastDecision' = NoDecision
    /\ UNCHANGED <<nextAlert, polls, shutdown, reports, flushedMax>>
    /\ UNCHANGED othersOfBatch

\* Variant of AddRulesStep in which add_rules gives the loop away between its
\* steps.
AddRulesStepYields(t) ==
    /\ flush[t].pc \in {"backed_up", "appended"}
    /\ flush' = [flush EXCEPT ![t].pc = IF flush[t].pc = "backed_up" THEN "appended"
                                        ELSE "tested"]
    /\ loop_task' = "none"

\* add_rules goes on inside the same task: append, then the configuration
\* test.  It is a plain function: subprocess.run blocks the loop.
AddRulesStep(t) ==
    /\ loop_task = t
    /\ flush[t].pc \in {"backed_up", "appended"}
    /\ flush' = [flush EXCEPT ![t].pc = IF flush[t].pc = "backed_up" THEN "appended"
                                        ELSE "tested"]
    /\ UNCHANGED loop_task

AddRulesGoesOn ==
    /\ \E t \in Tasks : AddRulesStep(t)
    /\ lastDecision' = NoDecision
    /\ lastEnd' = NoEnd
    /\ UNCHANGED <<elapsed, alert_batch, nextAlert, polls, shutdown, reports, flushedMax, lost>>
    /\ UNCHANGED othersOfBatch

\* The reload or the restore, the return of add_rules and the rest of the
\* flush.
AddRulesReturns ==
    /\ \E t \in Tasks :
         /\ flush[t].pc = "tested"
         /\ loop_task = t
         /\ FlushCompletes(t)
    /\ lastDecision' = NoDecision
    /\ UNCHANGED <<nextAlert, polls, shutdown, reports, flushedMax>>
    /\ UNCHANGED othersOfBatch

\* One iteration of _stats_reporter: it reads the statistics and logs them.
StatsReport ==
    /\ loop_task = "none"
    /\ ~shutdown
    /\ reports < MaxReports
    /\ reports' = reports + 1
    /\ lastDecision' = NoDecision
    /\ lastEnd' = NoEnd
    /\ UNCHANGED <<elapsed, alert_batch, nextAlert, polls, shutdown, flush, loop_task, flushedMax,
                   lost>>
    /\ UNCHANGED othersOfBatch

\* Time passes while the loop is idle or blocked in a subprocess.
ClockAdvances ==
    /\ \E d \in {1, processing_interval} :
         elapsed' = Min(elapsed + d, MaxElapsed)
    /\ lastDecision' = NoDecision
    /\ lastEnd' = NoEnd
    /\ UNCHANGED <<alert_batch, nextAlert, polls, shutdown, flush, loop_task, reports, flushedMax,
                   lost>>
    /\ UNCHANGED othersOfBatch

\* _shutdown sets the event; run cancels the three tasks: a flush suspended in
\* its await ends by CancelledError, which no except clause of the flush
\* catches.
Shutdown ==
    /\ loop_task = "none"
    /\ ~shutdown
    /\ shutdown' = TRUE
    /\ flush' = [t \in Tasks |-> IF flush[t].pc = "analysing"
                                 THEN [flush[t] EXCEPT !.pc = "cancelled"]
                                 ELSE flush[t]]
    /\ lastDecision' = NoDecision
    /\ lastEnd' = NoEnd
    /\ UNCHANGED <<elapsed, alert_batch, nextAlert, polls, loop_task, reports, flushedMax, lost>>
    /\ UNCHANGED othersOfBatch

\* MLEnhancedRunner.__init__, and the time that has passed since
InitBatchOver(E) ==
    /\ elapsed \in E
    /\ alert_batch = <<>>
    /\ nextAlert = 1
    /\ polls = 0
    /\ shutdown = FALSE
    /\ flush = [t \in Tasks |-> NoFlush]
    /\ loop_task = "none"
    /\ reports = 0
    /\ lastDecision = NoDecision
    /\ lastEnd = NoEnd
    /\ flushedMax = 0
    /\ lost = {}
InitBatch == InitBatchOver({0})

NextBatch ==
    \/ NewAlertsArrive \/ PeriodicCheck \/ AnalysisReturns \/ AddRulesGoesOn
    \/ AddRulesReturns \/ StatsReport \/ ClockAdvances \/ Shutdown

(***************************************************************************)
(* MLAnalysisManager.  Every _process_alert_batch call builds a manager of *)
(* its own, with a semaphore of its own, and gives it the (alert,          *)
(* features) pairs of its window; the calls of one manager are tasks of    *)
(* asyncio.gather.  A task of the runner starts a flush under the          *)
(* conditions of NewAlertsArrive and PeriodicCheck; here it may start one  *)
(* whenever it has none in progress.  An item is the id of its alert.      *)
(***************************************************************************)
max_concurrent_analyses == 3

MaxItems == 4
\* alerts in the window of one flush

NoManager == [active |-> FALSE, items |-> <<>>, st |-> <<>>, results |-> <<>>]
NoResult == [kind |-> "none", of |-> 0]

\* Calls of a manager that hold its semaphore: inside analyzer.analyze_alert.
Outstanding(m) == {i \in DOMAIN m.st : m.st[i] = "outstanding"}
Waiting(m) == {i \in DOMAIN m.st : m.st[i] = "waiting"}
\* asyncio.Semaphore(max_concurrent_analyses): free while fewer calls hold it.
SemaphoreFree(m) == Cardinality(Outstanding(m)) < max_concurrent_analyses

\* async with MLAnalysisManager() as ml_manager, then analyze_alerts_batch
\* builds one call per pair and gathers them.
ManagerDispatches ==
    /\ \E t \in Tasks, n \in 1..MaxItems :
         /\ ~mgr[t].active
         /\ mgr' = [mgr EXCEPT ![t] = [active |-> TRUE,
                                       items |-> [i \in 1..n |-> i],
                                       st |-> [i \in 1..n |-> "waiting"],
                                       results |-> [i \in 1..n |-> NoResult]]]
    /\ paired' = <<>>
    /\ UNCHANGED othersOfAnalyze

\* async with self.semaphore: the calls acquire it in the order they were
\* created, while it is free.
CallAcquires ==
    /\ \E t \in Tasks :
         /\ mgr[t].active
         /\ Waiting(mgr[t]) # {}
         /\ SemaphoreFree(mgr[t])
         /\ LET i == CHOOSE w \in Waiting(mgr[t]) : \A v \in Waiting(mgr[t]) : w <= v
            IN mgr' = [mgr EXCEPT ![t].st[i] = "outstanding"]
    /\ paired' = <<>>
    /\ UNCHANGED othersOfAnalyze

\* What analyzer.analyze_alert gives for an item: its result, or an exception.
AnalysisOf(item, ok) == [kind |-> IF ok THEN "result" ELSE "error", of |-> item]

\* Variant of Collect that fills the result list in the order of completion.
CollectInCompletionOrder(results, i, r) ==
    LET free == {k \in DOMAIN results : results[k] = NoResult}
        first == CHOOSE k \in free : \A j \in free : k <= j
    IN [results EXCEPT ![first] = r]

\* asyncio.gather(*tasks, return_exceptions=True): the outcome of the i-th
\* awaitable is the i-th element of the list.
Collect(results, i, r) == [results EXCEPT ![i] = r]

\* An outstanding call returns or raises, in any order; the semaphore is
\* released.
CallReturns ==
    /\ \E t \in Tasks :
         \E i \in Outstanding(mgr[t]), ok \in BOOLEAN :
            mgr' = [mgr EXCEPT ![t].st[i] = "done",
                               ![t].results = Collect(mgr[t].results, i,
                                                      AnalysisOf(mgr[t].items[i], ok))]
    /\ paired' = <<>>
    /\ UNCHANGED othersOfAnalyze

\* Variant of Pairs that stops at the first exception of the list.
PairsUntilFailure(items, results) ==
    LET failed == {i \in DOMAIN results : results[i].kind # "result"}
        upto == IF failed = {} THEN Len(results)
                ELSE (CHOOSE i \in failed : \A j \in failed : i <= j) - 1
    IN [k \in 1..upto |-> <<items[k], results[k].of>>]

\* _process_analysis_results: for i, result in enumerate(analysis_results),
\* an exception is skipped, otherwise the result goes with
\* alerts_with_features[i] into the history and the rules.
Pairs(items, results) ==
    LET kept == SelectSeq([i \in DOMAIN results |-> i],
                          LAMBDA i : results[i].kind = "result")
    IN [k \in DOMAIN kept |-> <<items[kept[k]], results[kept[k]].of>>]

\* gather returns when every call is done; the results are processed and the
\* manager is left.
GatherReturns ==
    /\ \E t \in Tasks :
         /\ mgr[t].active
         /\ \A i \in DOMAIN mgr[t].st : mgr[t].st[i] = "done"
         /\ paired' = Pairs(mgr[t].items, mgr[t].results)
         /\ mgr' = [mgr EXCEPT ![t] = NoManager]
    /\ UNCHANGED othersOfAnalyze

InitAnalyze ==
    /\ mgr = [t \in Tasks |-> NoManager]
    /\ paired = <<>>

NextAnalyze ==
    \/ ManagerDispatches \/ CallAcquires \/ CallReturns \/ GatherReturns

(***************************************************************************)
(* Analysis results (MLAnalysisResult).  A confidence is a float: a number  *)
(* of hundredths, or NaN, which json.loads accepts in a response and which  *)
(* every comparison answers with False.  The text of a suggested rule is    *)
(* kept as its tokens; a token of a port or of an option value is a word or *)
(* a number.                                                                *)
(***************************************************************************)
Conf(v) == [nan |-> FALSE, v |-> v]
NaN == [nan |-> TRUE, v |-> 0]
\* a < b and a >= b of a float a and a number b
Less(a, b) == ~a.nan /\ a.v < b
AtLeast(a, b) == ~a.nan /\ a.v >= b

Str(s) == [t |-> "str", s |-> s, n |-> 0]
Num(n) == [t |-> "num", s |-> "", n |-> n]

\* Python's None where a text is expected.
None == "None"

NoText == [action |-> "", protocol |-> "", src_addr |-> "", src_port |-> Str(""),
           direction |-> "", dst_addr |-> "", dst_port |-> Str(""), options |-> <<>>]
\* rule_suggestion: None, or a value that is no string, or a text
NoSuggestion == [kind |-> "none", text |-> NoText]
NonString == [kind |-> "nonstring", text |-> NoText]
Text(tokens) == [kind |-> "text", text |-> tokens]

\* Suggested rules.  The first is the one of test_rule_generation; the option
\* values of the suggestions considered hold no closing parenthesis.
SuggestedWithSid ==
    Text([action |-> "alert", protocol |-> "tcp", src_addr |-> "any",
          src_port |-> Str("any"), direction |-> "->", dst_addr |-> "any",
          dst_port |-> Num(22),
          options |-> << <<"msg", Str("SSH Brute Force Attempt")>>,
                         <<"flow", Str("to_server,established")>>,
                         <<"sid", Num(2000001)>>, <<"rev", Num(1)>> >>])
SuggestedWithoutSid ==
    Text([action |-> "drop", protocol |-> "udp", src_addr |-> "1.2.3.4",
          src_port |-> Num(53), direction |-> "<>", dst_addr |-> "any",
          dst_port |-> Str("any"),
          options |-> << <<"msg", Str("DNS tunnel")>>, <<"rev", Num(1)>> >>])
SuggestedPass ==
    Text([action |-> "pass", protocol |-> "tcp", src_addr |-> "any",
          src_port |-> Str("any"), direction |-> "->", dst_addr |-> "any",
          dst_port |-> Num(22),
          options |-> << <<"msg", Str("Trusted backup host")>>, <<"sid", Num(5)>> >>])
\* a text that is no rule: "block everything"
SuggestedMalformed ==
    Text([action |-> "block", protocol |-> "everything", src_addr |-> "",
          src_port |-> Str(""), direction |-> "", dst_addr |-> "",
          dst_port |-> Str(""), options |-> <<>>])
\* the empty string
EmptySuggestion == [kind |-> "empty", text |-> NoText]

MLAnalysisResult(confidence, classification, description, action, suggestion) ==
    [confidence |-> confidence, threat_classification |-> classification,
     threat_description |-> description, recommended_action |-> action,
     rule_suggestion |-> suggestion]

(***************************************************************************)
(* OpenAIAnalyzer.analyze_alert: the request is made up to max_retries      *)
(* times; the suspension points are the request and the sleep between two   *)
(* attempts.                                                                *)
(***************************************************************************)
max_retries == 3

MaxCalls == 2
\* analyze_alert calls of one analyzer

\* What one attempt ends with: a response that parses into a result, a
\* response that is no JSON (json.JSONDecodeError), or any other Exception
\* (API error, a response of another shape).
AttemptKinds == {"ok", "json_error", "error"}

\* The results a response can hold.
Responses ==
    { MLAnalysisResult(Conf(99), "malware", "C2 beacon", "block", NoSuggestion),
      MLAnalysisResult(Conf(20), "false_positive", "benign", "ignore", NoSuggestion),
      MLAnalysisResult(NaN, "unknown", "", "monitor", NoSuggestion),
      MLAnalysisResult(Conf(98), "brute-force", "SSH brute force", "block",
                       SuggestedWithSid) }

\* The except clause of analyze_alert (176-187).
DefaultResult ==
    MLAnalysisResult(Conf(50), "analysis_error", "Failed to analyze alert",
                     "investigate", NoSuggestion)
NoAnalysis == MLAnalysisResult(Conf(0), "", "", "", NoSuggestion)

\* Variant of LastAttempt that is one attempt late.
LastAttemptOffByOne(attempt) == attempt = max_retries

\* if attempt == self.max_retries - 1: raise
LastAttempt(attempt) == attempt = max_retries - 1

\* await asyncio.sleep(1) after a JSON error, asyncio.sleep(2 ** attempt)
\* after another error
Backoff(kind, attempt) == IF kind = "json_error" THEN 1 ELSE 2 ^ attempt

IdleAnalyzer ==
    [pc |-> "idle", calls |-> 0, attempt |-> 0, tried |-> <<>>, slept |-> 0,
     outcome |-> "none", returned |-> NoAnalysis,
     analysis_count |-> 0, error_count |-> 0]

\* analyze_alert is called: the prompt is built and the loop starts with
\* attempt 0 (range(self.max_retries)).
AnalyzeAlert ==
    /\ analyzer.pc \in {"idle", "returned"}
    /\ analyzer.calls < MaxCalls
    /\ analyzer' = [analyzer EXCEPT !.pc = IF 0 < max_retries THEN "requesting" ELSE "returned",
                                    !.calls = @ + 1, !.attempt = 0, !.tried = <<>>,
                                    !.slept = 0,
                                    !.outcome = IF 0 < max_retries THEN "none" ELSE "nothing",
                                    !.returned = NoAnalysis]
    /\ UNCHANGED othersOfRetry

\* The request of the current attempt ends.  A parsed response is returned;
\* a failure of the last attempt is raised again and caught by the outer
\* except clause, which returns the default result; a failure of an earlier
\* attempt is followed by a sleep.
AttemptEnds ==
    /\ analyzer.pc = "requesting"
    /\ \E kind \in AttemptKinds, response \in Responses :
         LET tried == Append(analyzer.tried, kind)
         IN IF kind = "ok"
            THEN analyzer' = [analyzer EXCEPT !.pc = "returned", !.tried = tried,
                                              !.outcome = "result",
                                              !.returned = response,
                                              !.analysis_count = @ + 1]
            ELSE /\ response = CHOOSE r \in Responses : TRUE
                 /\ IF LastAttempt(analyzer.attempt)
                    THEN analyzer' = [analyzer EXCEPT !.pc = "returned", !.tried = tried,
                                                      !.outcome = "default",
                                                      !.returned = DefaultResult,
                                                      !.error_count = @ + 1]
                    ELSE analyzer' = [analyzer EXCEPT !.pc = "sleeping", !.tried = tried,
                                                      !.slept = @ + Backoff(kind, analyzer.attempt)]
    /\ UNCHANGED othersOfRetry

\* The sleep ends and the loop goes on with the next attempt; when the range
\* is used up the function ends without a return statement.
SleepEnds ==
    /\ analyzer.pc = "sleeping"
    /\ IF analyzer.attempt + 1 < max_retries
       THEN analyzer' = [analyzer EXCEPT !.pc = "requesting", !.attempt = @ + 1]
       ELSE analyzer' = [analyzer EXCEPT !.pc = "returned", !.outcome = "nothing"]
    /\ UNCHANGED othersOfRetry

InitRetry == analyzer = IdleAnalyzer

NextRetry ==
    \/ AnalyzeAlert \/ AttemptEnds \/ SleepEnds

(***************************************************************************)
(* Alert records (SnortAlert).  An optional port is the empty sequence     *)
(* (None) or the sequence of its number.                                    *)
(***************************************************************************)
NoPort == <<>>
Port(n) == <<n>>
SnortAlert(priority, classification, message, protocol, src_ip, src_port, dst_ip, dst_port, sid, rev) ==
    [priority |-> priority, classification |-> classification, message |-> message,
     protocol |-> protocol, src_ip |-> src_ip, src_port |-> src_port,
     dst_ip |-> dst_ip, dst_port |-> dst_port, sid |-> sid, rev |-> rev]

(***************************************************************************)
(* SnortRuleGenerator: rule synthesis.  A dict is the sequence of its       *)
(* (key, value) pairs in insertion order.  Of a message only the            *)
(* description is kept: the prefix and the quotes around it are the same in *)
(* every rule, and the descriptions considered are shorter than the 80      *)
(* characters the code cuts them to.  The date inside the metadata option   *)
(* is left out.                                                             *)
(***************************************************************************)
\* The default of config.confidence_threshold, in hundredths
confidence_threshold == 98
rule_priority == 1

MaxResults == 2
\* analysis results of one flush

\* str.lower() and str.upper() of the protocol tags considered
Lower(p) ==
    CASE p = "TCP" -> "tcp" [] p = "UDP" -> "udp" [] p = "ICMP" -> "icmp"
      [] p = "IPV6-ICMP" -> "ipv6-icmp" [] OTHER -> p
Upper(p) ==
    CASE p = "tcp" -> "TCP" [] p = "udp" -> "UDP" [] p = "icmp" -> "ICMP"
      [] p = "ipv6-icmp" -> "IPV6-ICMP" [] OTHER -> p

DictKeys(d) == {d[i][1] : i \in DOMAIN d}
DictGet(d, k) == d[CHOOSE i \in DOMAIN d : d[i][1] = k][2]
\* d[k] = v: a key already present keeps its place
DictSet(d, k, v) ==
    IF k \in DictKeys(d)
    THEN [i \in DOMAIN d |-> IF d[i][1] = k THEN <<k, v>> ELSE d[i]]
    ELSE Append(d, <<k, v>>)

\* _parse_rule_options: the parts between semicolons, each split at its
\* first colon, put into a dict from left to right.
RECURSIVE parse_rule_options(_)
parse_rule_options(parts) ==
    IF parts = <<>> THEN <<>>
    ELSE LET last == parts[Len(parts)]
         IN DictSet(parse_rule_options(SubSeq(parts, 1, Len(parts) - 1)),
                    last[1], last[2])

\* The texts that hold a closing parenthesis.
ParenTexts == {"SSH brute force (port 22)"}
HasParen(tok) == tok.t = "str" /\ tok.s \in ParenTexts

\* The rendered rule text:
\* f"{action} {protocol} {src_addr} {src_port} {direction} {dst_addr} {dst_port} ({'; '.join(options_list)};)"
\* with the class of its option text and the SID written in it.
RenderRule(action, protocol, src_addr, src_port, direction, dst_addr, dst_port, options) ==
    [action |-> action, protocol |-> protocol, direction |-> direction,
     body |-> IF options = <<>> THEN ""
              ELSE IF \E i \in DOMAIN options : HasParen(options[i][2]) THEN "paren"
              ELSE "opts",
     sid |-> IF "sid" \in DictKeys(options) /\ DictGet(options, "sid").t = "num"
             THEN DictGet(options, "sid").n ELSE 0,
     src_addr |-> src_addr, src_port |-> src_port,
     dst_addr |-> dst_addr, dst_port |-> dst_port, options |-> options]

\* The classification texts that hold "; " followed by an option of their
\* own: "trojan-activity; sid:42".
SplitTexts == {"trojan-activity; sid:42"}

\* What f'{k}:{v}' puts into the joined option text: the option itself and,
\* for a value that holds a semicolon, the options written after it.
PartsOfOption(opt) ==
    IF opt[2].t = "str" /\ opt[2].s \in SplitTexts
    THEN << <<opt[1], Str("trojan-activity")>>, <<"sid", Num(42)>> >>
    ELSE <<opt>>

\* The options that stand in the rendered text, '; '.join(options_list),
\* from left to right.
RECURSIVE OptionsWritten(_)
OptionsWritten(options) ==
    IF options = <<>> THEN <<>>
    ELSE PartsOfOption(Head(options)) \o OptionsWritten(Tail(options))

\* The values of the sid options that stand in a rendered text.
SidsWritten(raw_rule) ==
    LET IsSid(opt) == opt[1] = "sid"
        written == SelectSeq(OptionsWritten(raw_rule.options), IsSid)
    IN [i \in DOMAIN written |-> written[i][2]]

SnortRule(sid, message, protocol, src_addr, src_port, direction, dst_addr, dst_port, options, raw_rule, confidence_score) ==
    [sid |-> sid, message |-> message, protocol |-> protocol,
     src_addr |-> src_addr, src_port |-> src_port, direction |-> direction,
     dst_addr |-> dst_addr, dst_port |-> dst_port,
     options |-> DictKeys(options), values |-> options,
     raw_rule |-> raw_rule, confidence_score |-> confidence_score]

NoRule ==
    SnortRule(0, "", "", "", Str(""), "", "", Str(""), <<>>,
              RenderRule("", "", "", Str(""), "", "", Str(""), <<>>), Conf(0))

\* What a call ends with: a rule, None, or an exception; and the value of
\* self.next_sid it leaves.
Produced(rule, nsid) == [kind |-> "rule", rule |-> rule, next_sid |-> nsid]
ReturnedNone(nsid) == [kind |-> "none", rule |-> NoRule, next_sid |-> nsid]
Raised(nsid) == [kind |-> "raised", rule |-> NoRule, next_sid |-> nsid]

\* f"ml_analysis,confidence_{analysis.confidence:.2f}"
Reference(confidence) ==
    [t |-> "ref", s |-> IF confidence.nan THEN "nan" ELSE "", n |-> confidence.v]
\* f"{config.rule_prefix},generated_{date}"
Metadata == Str("ML_GENERATED,generated")

\* str(port) if port else "any"
PortToken(port) ==
    IF port # NoPort /\ port[1] # 0 THEN Num(port[1]) ELSE Str("any")

\* action = "alert"; "drop" if recommended_action is "block", "reject" if it
\* is "reject"
ActionFor(recommended_action) ==
    IF recommended_action = "block" THEN "drop"
    ELSE IF recommended_action = "reject" THEN "reject"
    ELSE "alert"

\* _generate_rule_from_alert: raises when the description is None
\* (None[:80]); otherwise the rule gets self.next_sid, which is then
\* incremented.
generate_rule_from_alert(alert, analysis, nsid) ==
    IF analysis.threat_description = None THEN Raised(nsid)
    ELSE LET action == ActionFor(analysis.recommended_action)
             protocol == Lower(alert.protocol)
             src_port == PortToken(alert.src_port)
             dst_port == PortToken(alert.dst_port)
             message == analysis.threat_description
             options == << <<"msg", Str(message)>>,
                           <<"sid", Num(nsid)>>,
                           <<"rev", Num(1)>>,
                           <<"classtype", Str(analysis.threat_classification)>>,
                           <<"priority", Num(rule_priority)>>,
                           <<"reference", Reference(analysis.confidence)>>,
                           <<"metadata", Metadata>> >>
             raw_rule == RenderRule(action, protocol, alert.src_ip, src_port, "->",
                                    alert.dst_ip, dst_port, options)
         IN Produced(SnortRule(nsid, message, Upper(protocol), alert.src_ip,
                               src_port, "->", alert.dst_ip, dst_port, options,
                               raw_rule, analysis.confidence),
                     nsid + 1)

\* re.sub(r'sid:\s*\d+', f'sid:{self.next_sid}', suggested_rule)
SubstituteSid(parts, nsid) ==
    [i \in DOMAIN parts |->
        IF parts[i][1] = "sid" /\ parts[i][2].t = "num"
        THEN <<"sid", Num(nsid)>> ELSE parts[i]]

\* (alert|drop|reject)\s+(\w+)\s+([^\s]+)\s+([^\s]+)\s+([<>-]+)\s+([^\s]+)\s+([^\s]+)\s+\(([^)]+)\)
SuggestedActions == {"alert", "drop", "reject"}
rule_pattern(text) ==
    /\ text.action \in SuggestedActions
    /\ text.protocol \in WordTokens
    /\ text.src_addr # "" /\ text.src_port # Str("")
    /\ text.direction \in DirTokens
    /\ text.dst_addr # "" /\ text.dst_port # Str("")
    /\ text.options # <<>>

\* Variant of Fallback that has taken a SID before it falls back.
FallbackAfterAllocation(alert, analysis, nsid) ==
    generate_rule_from_alert(alert, analysis, nsid + 1)

\* return self._generate_rule_from_alert(alert, analysis), on a suggestion
\* that does not match and in the except clause of _parse_suggested_rule
Fallback(alert, analysis, nsid) ==
    generate_rule_from_alert(alert, analysis, nsid)

\* _parse_suggested_rule.  re.search raises on a value that is no string;
\* options.get('msg', analysis.threat_description).strip('"') raises when
\* there is no msg option and the description is None.
parse_suggested_rule(suggested_rule, alert, analysis, nsid) ==
    IF suggested_rule.kind # "text" THEN Fallback(alert, analysis, nsid)
    ELSE LET text == [suggested_rule.text EXCEPT
                         !.options = SubstituteSid(@, nsid)]
         IN IF ~rule_pattern(text) THEN Fallback(alert, analysis, nsid)
            ELSE LET parsed == parse_rule_options(text.options)
                     with_sid == DictSet(parsed, "sid", Num(nsid))
                     with_class == DictSet(with_sid, "classtype",
                                           Str(analysis.threat_classification))
                     with_ref == DictSet(with_class, "reference",
                                         Reference(analysis.confidence))
                     options == DictSet(with_ref, "metadata", Metadata)
                     rebuilt_rule == RenderRule(text.action, text.protocol,
                                                text.src_addr, text.src_port,
                                                text.direction, text.dst_addr,
                                                text.dst_port, options)
                 IN IF "msg" \notin DictKeys(options)
                       /\ analysis.threat_description = None
                    THEN Fallback(alert, analysis, nsid)
                    ELSE Produced(
                           SnortRule(nsid,
                                     IF "msg" \in DictKeys(options)
                                     THEN DictGet(options, "msg").s
                                     ELSE analysis.threat_description,
                                     Upper(text.protocol), text.src_addr,
                                     text.src_port, text.direction, text.dst_addr,
                                     text.dst_port, options, rebuilt_rule,
                                     analysis.confidence),
                           nsid + 1)

\* Variant of BelowThreshold that lets every confidence through.
BelowThresholdNever(analysis) == FALSE

\* config.confidence_threshold, the threshold the process runs with: the
\* default, or the value of CONFIDENCE_THRESHOLD, of the configuration file
\* or of the command line.
config_confidence_threshold == synth.confidence_threshold

\* The test of config.validate:
\* if self.confidence_threshold < 0 or self.confidence_threshold > 1: raise
validate(threshold) == ~(threshold < 0 \/ threshold > 100)

\* if analysis.confidence < config.confidence_threshold: return None
BelowThreshold(analysis) == Less(analysis.confidence, config_confidence_threshold)

\* if analysis.rule_suggestion: None and the empty string are false
Truthy(suggestion) == suggestion.kind \in {"text", "nonstring"}

\* generate_rule_from_ml_analysis; its except clause turns an exception of
\* either path into None.
generate_rule_from_ml_analysis(alert, analysis, nsid) ==
    IF BelowThreshold(analysis) THEN ReturnedNone(nsid)
    ELSE LET r == IF Truthy(analysis.rule_suggestion)
                  THEN parse_suggested_rule(analysis.rule_suggestion, alert,
                                            analysis, nsid)
                  ELSE generate_rule_from_alert(alert, analysis, nsid)
         IN IF r.kind = "raised" THEN ReturnedNone(r.next_sid) ELSE r

\* One call of generate_rule_from_ml_analysis, as the history keeps it.
CallOf(alert, analysis, nsid) ==
    LET r == generate_rule_from_ml_analysis(alert, analysis, nsid)
    IN [alert |-> alert, analysis |-> analysis, before |-> nsid,
        kind |-> r.kind, rule |-> r.rule, after |-> r.next_sid]

\* _generate_and_apply_rules: for alert, analysis in high_confidence_results,
\* one call after the other.
RECURSIVE GenerateAll(_, _)
GenerateAll(pairs, nsid) ==
    IF pairs = <<>> THEN <<>>
    ELSE LET c == CallOf(Head(pairs)[1], Head(pairs)[2], nsid)
         IN <<c>> \o GenerateAll(Tail(pairs), c.after)

\* The SIDs of the rules a sequence of calls returned.
RECURSIVE SidsOf(_)
SidsOf(calls) ==
    IF calls = <<>> THEN <<>>
    ELSE (IF Head(calls).kind = "rule" THEN <<Head(calls).rule.sid>> ELSE <<>>)
         \o SidsOf(Tail(calls))

\* The alert records given to the generator.
SynthAlerts ==
    { SnortAlert(1, "Attempted Administrator Privilege Gain", "SSH Connection Attempt",
                 "TCP", "192.168.1.100", Port(22), "192.168.1.200", Port(54321),
                 1000001, 1),
      SnortAlert(2, "Potentially Bad Traffic", "DNS Query", "UDP", "10.0.0.5",
                 NoPort, "8.8.8.8", Port(53), 1000002, 3),
      SnortAlert(3, "Misc activity", "Port zero", "TCP", "203.0.113.9", Port(0),
                 "192.168.1.200", Port(80), 1000003, 1),
      SnortAlert(3, "Misc activity", "ICMPv6 echo", "IPV6-ICMP", "10.0.0.5",
                 NoPort, "10.0.0.6", NoPort, 1000004, 1) }

Descriptions == {"SSH brute force", "SSH brute force (port 22)", None}
RecommendedActions == {"block", "reject", "monitor", "ignore"}
SuggestionsGiven ==
    {NoSuggestion, EmptySuggestion, NonString, SuggestedWithSid,
     SuggestedWithoutSid, SuggestedPass, SuggestedMalformed}

\* The results the generator is called with by a caller of its own: a
\* confidence is a number of [0, 1].
DirectAnalyses ==
    { MLAnalysisResult(Conf(c), "brute-force", d, "block", sg) :
         c \in {50, 98}, d \in Descriptions, sg \in SuggestionsGiven }
    \cup
    { MLAnalysisResult(Conf(99), "brute-force", "SSH brute force", a, NoSuggestion) :
         a \in RecommendedActions }
    \cup
    { MLAnalysisResult(Conf(99), cl, "SSH brute force", "block", sg) :
         cl \in SplitTexts, sg \in {NoSuggestion, SuggestedWithSid} }

\* The results of one flush: what the analyzer returns.
FlushResults ==
    SeqsUpTo({<<CHOOSE a \in SynthAlerts : a.sid = 1000001, r>> :
                 r \in Responses \cup {DefaultResult}}, MaxResults) \ {<<>>}

NoSynth ==
    [via |-> "none", results |-> <<>>, calls |-> <<>>,
     confidence_threshold |-> confidence_threshold]

\* The thresholds a process is configured with; the last is outside the
\* range config.validate accepts.
ThresholdsGiven == {50, confidence_threshold, 100, 101}

\* if result.confidence >= config.confidence_threshold:
\*     high_confidence_results.append((alert, result))
HighConfidence(pair) == AtLeast(pair[2].confidence, config_confidence_threshold)

\* _process_analysis_results and _generate_and_apply_rules over the results
\* of one flush: the results at or above the threshold are kept and a rule
\* is generated from each of them.
ProcessAnalysisResults ==
    /\ genPc = "ready"
    /\ Len(issued) < MaxGen
    /\ \E results \in FlushResults :
         LET high_confidence_results == SelectSeq(results, HighConfidence)
             calls == GenerateAll(high_confidence_results, next_sid)
         IN /\ synth' = [synth EXCEPT !.via = "runner", !.results = results,
                                   !.calls = calls]
            /\ next_sid' = IF calls = <<>> THEN next_sid ELSE calls[Len(calls)].after
            /\ issued' = issued \o SidsOf(calls)
    /\ UNCHANGED <<rules_dir, genPc>>
    /\ UNCHANGED othersOfSynth

\* generate_rule_from_ml_analysis called on its own, as test_rule_generation
\* does.
GenerateRuleFromMlAnalysis ==
    /\ genPc = "ready"
    /\ Len(issued) < MaxGen
    /\ \E alert \in SynthAlerts, analysis \in DirectAnalyses :
         LET c == CallOf(alert, analysis, next_sid)
         IN /\ synth' = [synth EXCEPT !.via = "direct", !.results = <<>>,
                                   !.calls = <<c>>]
            /\ next_sid' = c.after
            /\ issued' = issued \o SidsOf(<<c>>)
    /\ UNCHANGED <<rules_dir, genPc>>
    /\ UNCHANGED othersOfSynth

InitSynth == synth = NoSynth
InitSynthOver(thresholds) ==
    synth \in {[NoSynth EXCEPT !.confidence_threshold = t] : t \in thresholds}

NextSynth ==
    \/ Construct \/ ProcessAnalysisResults \/ GenerateRuleFromMlAnalysis

(***************************************************************************)
(* AlertFeatureExtractor.  A score is a float, kept in thousandths; the     *)
(* result of a float addition is the exact sum or a neighbour of it, so     *)
(* that every rounding the arithmetic can make is among the outcomes.       *)
(***************************************************************************)
MaxPriority == 4
\* the priorities 0..MaxPriority of the records given to the extractor

One == 1000
Tenth == 100

\* The addresses ipaddress.ip_address parses and whose is_private is True;
\* "8.8.8.8" parses and is public, "any" raises ValueError.
PrivateAddresses == {"192.168.1.100", "10.0.0.5"}
FeatureAddresses == PrivateAddresses \cup {"8.8.8.8", "any"}

\* _is_private_ip: ip.is_private, False when the text is no address
is_private_ip(ip_str) == ip_str \in PrivateAddresses

is_inbound_traffic(src_ip, dst_ip) == ~is_private_ip(src_ip) /\ is_private_ip(dst_ip)
is_outbound_traffic(src_ip, dst_ip) == is_private_ip(src_ip) /\ ~is_private_ip(dst_ip)

\* Variant of is_lateral_movement that looks at the destination only.
IsLateralByDestination(src_ip, dst_ip) == is_private_ip(dst_ip)

is_lateral_movement(src_ip, dst_ip) == is_private_ip(src_ip) /\ is_private_ip(dst_ip)

\* The classifications that hold, in lower case, one of
\* high_risk_classifications as a substring.
HighRiskTexts == {"A Network Trojan was detected (trojan-activity)"}
FeatureClassifications == HighRiskTexts \cup {"Misc activity"}
severity_ports == {22, 23, 135, 139, 445, 1433, 3389, 5900}
\* port in suspicious_ports; None is in no list
PortIn(port, ports) == port # NoPort /\ port[1] \in ports

\* The keys of the suspicious_ports dict of _is_suspicious_port.
suspicious_ports == severity_ports \cup {6667, 31337, 12345}

\* _is_suspicious_port
is_suspicious_port(src_port, dst_port) == PortIn(src_port, suspicious_ports) \/ PortIn(dst_port, suspicious_ports)

\* The condition of the port-based scoring of _calculate_severity_score.
PortScored(alert) == PortIn(alert.dst_port, severity_ports) \/ PortIn(alert.src_port, severity_ports)

\* score += x, with the rounding e of the addition
Add(score, x, e) == score + x + e
Roundings == [1..4 -> {-1, 0, 1}]

\* _calculate_severity_score
calculate_severity_score(alert, e) ==
    LET by_priority ==
            Add(0, IF alert.priority = 1 THEN 4 * Tenth
                   ELSE IF alert.priority = 2 THEN 3 * Tenth
                   ELSE IF alert.priority = 3 THEN 2 * Tenth
                   ELSE Tenth, e[1])
        by_class ==
            IF alert.classification \in HighRiskTexts
            THEN Add(by_priority, 3 * Tenth, e[2]) ELSE by_priority
        by_protocol ==
            IF alert.protocol \in {"TCP", "UDP"}
            THEN Add(by_class, Tenth, e[3]) ELSE by_class
        score ==
            IF PortScored(alert)
            THEN Add(by_protocol, 2 * Tenth, e[4]) ELSE by_protocol
    IN Max(0, Min(One, score))

\* The alert records given to the extractor.
FeatureAlerts ==
    { SnortAlert(p, c, "SSH Connection Attempt", pr, s, sp, d, dp, 1000001, 1) :
         p \in 0..MaxPriority, c \in FeatureClassifications,
         pr \in {"TCP", "ICMP"}, s \in FeatureAddresses,
         sp \in {NoPort, Port(22)}, d \in FeatureAddresses,
         dp \in {NoPort, Port(80), Port(6667)} }

NoFeatures ==
    [pc |-> "pending", severity_score |-> 0, is_inbound |-> FALSE,
     is_outbound |-> FALSE, is_lateral |-> FALSE,
     suspicious_port |-> FALSE, port_increment |-> FALSE]

\* extract_features(alert): the features the properties are about;
\* port_increment records whether the score took the port-based increment.
ExtractFeatures ==
    /\ features.pc = "pending"
    /\ \E e \in Roundings :
         features' = [features EXCEPT
            !.pc = "extracted",
            !.is_inbound = is_inbound_traffic(features.alert.src_ip, features.alert.dst_ip),
            !.is_outbound = is_outbound_traffic(features.alert.src_ip, features.alert.dst_ip),
            !.is_lateral = is_lateral_movement(features.alert.src_ip, features.alert.dst_ip),
            !.suspicious_port = is_suspicious_port(features.alert.src_port, features.alert.dst_port),
            !.port_increment = PortScored(features.alert),
            !.severity_score = calculate_severity_score(features.alert, e)]
    /\ UNCHANGED othersOfFeatures

InitFeaturesOver(A) ==
    features \in {[alert |-> a] @@ NoFeatures : a \in A}

NextFeatures ==
    \/ ExtractFeatures

\* One record, for the specifications that are not about the extractor.
OneAlert == {CHOOSE a \in SynthAlerts : a.sid = 1000001}

(***************************************************************************)
(* AlertParser (ml_runner/alert_parser.py).  A line of the alert log is a  *)
(* sequence of one-character strings.  ALERT_PATTERN is matched against it *)
(* character by character in the order Python's re tries the alternatives: *)
(* a greedy repetition longest first, a lazy one shortest first.           *)
(***************************************************************************)
\* lines in the input of one behaviour
MaxInput == 2

DigitChars == <<"0", "1", "2", "3", "4", "5", "6", "7", "8", "9">>
Digit == {DigitChars[i] : i \in 1..Len(DigitChars)}
Whitespace == {" ", "\t"}

\* int(text) for a text of decimal digits
DigitValue(c) == (CHOOSE i \in 1..Len(DigitChars) : DigitChars[i] = c) - 1
RECURSIVE IntOf(_)
IntOf(ds) ==
    IF ds = <<>> THEN 0
    ELSE 10 * IntOf(SubSeq(ds, 1, Len(ds) - 1)) + DigitValue(ds[Len(ds)])

\* str.strip() of a text
RECURSIVE LStripText(_)
LStripText(s) == IF s # <<>> /\ Head(s) \in Whitespace THEN LStripText(Tail(s)) ELSE s
RECURSIVE RStripText(_)
RStripText(s) == IF s # <<>> /\ s[Len(s)] \in Whitespace THEN RStripText(SubSeq(s, 1, Len(s) - 1)) ELSE s
StripText(s) == RStripText(LStripText(s))

\* str.upper() of a text
LowerChars == <<"a", "b", "c", "d", "e", "f", "g", "h", "i", "j", "k", "l", "m", "n", "o", "p", "q", "r", "s", "t", "u", "v", "w", "x", "y", "z">>
UpperChars == <<"A", "B", "C", "D", "E", "F", "G", "H", "I", "J", "K", "L", "M", "N", "O", "P", "Q", "R", "S", "T", "U", "V", "W", "X", "Y", "Z">>
UpperChar(c) ==
    IF \E i \in 1..Len(LowerChars) : LowerChars[i] = c
    THEN UpperChars[CHOOSE i \in 1..Len(LowerChars) : LowerChars[i] = c]
    ELSE c
UpperText(s) == [i \in 1..Len(s) |-> UpperChar(s[i])]

\* The elements of a regular expression: a literal text; a repetition of a
\* character class (the characters in `set`, or with `neg` the characters
\* outside it), at least `lo` times and with `exact` no more than that;
\* the alternative (\d+|\*).  g is the capture group the element is part of.
Lit(text, g)     == [k |-> "lit", text |-> text, g |-> g]
Exactly(n, set, g) == [k |-> "rep", set |-> set, neg |-> FALSE, lo |-> n, exact |-> TRUE, greedy |-> TRUE, g |-> g]
Plus(set, g)     == [k |-> "rep", set |-> set, neg |-> FALSE, lo |-> 1, exact |-> FALSE, greedy |-> TRUE, g |-> g]
PlusNot(set, g)  == [k |-> "rep", set |-> set, neg |-> TRUE, lo |-> 1, exact |-> FALSE, greedy |-> TRUE, g |-> g]
LazyPlusNot(set, g) == [k |-> "rep", set |-> set, neg |-> TRUE, lo |-> 1, exact |-> FALSE, greedy |-> FALSE, g |-> g]
DigitsOrStar(g)  == [k |-> "port", g |-> g]

InClass(c, item) == (c \in item.set) # item.neg

\* F applied to the value of v
Apply(F(_), v) == CHOOSE r \in {F(x) : x \in {v}} : TRUE

\* how many characters from position p on are in the class of the item
Run(s, p, item) ==
    LET most == IF item.exact THEN Min(item.lo, Len(s) - p + 1) ELSE Len(s) - p + 1
    IN CHOOSE n \in 0..most :
          /\ n = most \/ ~InClass(s[p + n], item)
          /\ \A j \in 0..(n - 1) : InClass(s[p + j], item)

\* the positions after a match of one element at position p, in the order
\* the matcher tries them: a greedy repetition gives its longest match first
EndsOfRun(p, item, run) ==
    IF run < item.lo THEN <<>>
    ELSE IF item.greedy THEN [i \in 1..(run - item.lo + 1) |-> p + run - i + 1]
    ELSE [i \in 1..(run - item.lo + 1) |-> p + item.lo + i - 1]
EndsOfRep(s, p, item) == Apply(LAMBDA run : EndsOfRun(p, item, run), Run(s, p, item))
Ends(s, p, item) ==
    IF item.k = "lit"
    THEN IF p + Len(item.text) - 1 <= Len(s) /\ SubSeq(s, p, p + Len(item.text) - 1) = item.text
         THEN <<p + Len(item.text)>> ELSE <<>>
    ELSE IF item.k = "rep" THEN EndsOfRep(s, p, item)
    ELSE EndsOfRep(s, p, Plus(Digit, item.g))
         \o (IF p <= Len(s) /\ s[p] = "*" THEN <<p + 1>> ELSE <<>>)
EndSet(s, p, item) == Apply(LAMBDA ends : {ends[i] : i \in 1..Len(ends)}, Ends(s, p, item))

\* pattern.match(s) goes through the elements of the pattern from the start
\* of s and, where an element cannot match, goes back to the last element
\* that has another end to try.  What it finds is computed in three passes
\* over the n elements of the pattern: the positions each element can start
\* at after a match of the elements before it (reach); from the last element
\* to the first, those of them from which the rest of the pattern matches
\* (viable); and from position 1 the first end, in the matcher's order, of
\* each element from which the rest matches (found).
ReachStep(st, k) ==
    [st EXCEPT !.reach = Append(@, UNION {EndSet(st.s, p, st.pat[k]) : p \in @[k]})]
ViableStep(st, k) ==
    [st EXCEPT !.viable =
        << {p \in st.reach[k] :
               EndSet(st.s, p, st.pat[k])
               \cap (IF @ = <<>> THEN st.reach[k + 1] ELSE @[1]) # {}} >> \o @]
FoundStep(st, k) ==
    IF st.viable[1] = {} THEN st
    ELSE [st EXCEPT !.found =
             Append(@, SelectSeq(Ends(st.s, @[k], st.pat[k]),
                                 LAMBDA q : k = Len(st.pat) \/ q \in st.viable[k + 1])[1])]
Step(st, i) ==
    LET n == Len(st.pat)
    IN IF i <= n THEN ReachStep(st, i)
       ELSE IF i <= 2 * n THEN ViableStep(st, 2 * n - i + 1)
       ELSE FoundStep(st, i - 2 * n)
\* the steps a..b one after another
RECURSIVE Steps(_, _, _)
Steps(st, a, b) ==
    IF a = b THEN Step(st, a)
    ELSE Apply(LAMBDA half : Steps(half, (a + b) \div 2 + 1, b),
               Steps(st, a, (a + b) \div 2))
NoMatch == <<>>
Match(pat, s) ==
    Apply(LAMBDA st : IF st.viable[1] = {} THEN NoMatch ELSE st.found,
          Apply(LAMBDA st : Steps(st, 1, 3 * Len(pat)),
                [s |-> s, pat |-> pat, reach |-> << {1} >>, viable |-> <<>>, found |-> <<1>>]))

\* match.group(g)
Group(pat, s, m, g) ==
    LET ks == {k \in 1..Len(pat) : pat[k].g = g}
        a == CHOOSE k \in ks : \A j \in ks : k <= j
        b == CHOOSE k \in ks : \A j \in ks : k >= j
    IN SubSeq(s, m[a], m[b + 1] - 1)

ALERT_PATTERN ==
    << Exactly(2, Digit, 1), Lit(<<"/">>, 1), Exactly(2, Digit, 1), Lit(<<"-">>, 1),
       Exactly(2, Digit, 1), Lit(<<":">>, 1), Exactly(2, Digit, 1), Lit(<<":">>, 1),
       Exactly(2, Digit, 1), Lit(<<".">>, 1), Plus(Digit, 1), Plus(Whitespace, 0),
       Lit(<<"[", "*", "*", "]">>, 0), Plus(Whitespace, 0),
       Lit(<<"[">>, 0), Plus(Digit, 2), Lit(<<":">>, 0), Plus(Digit, 3), Lit(<<":">>, 0),
       Plus(Digit, 4), Lit(<<"]">>, 0), Plus(Whitespace, 0),
       LazyPlusNot({"["}, 5), Plus(Whitespace, 0),
       Lit(<<"[", "*", "*", "]">>, 0), Plus(Whitespace, 0),
       Lit(<<"[", "C", "l", "a", "s", "s", "i", "f", "i", "c", "a", "t", "i", "o", "n", ":">>, 0), Plus(Whitespace, 0), PlusNot({"]"}, 6),
       Lit(<<"]">>, 0), Plus(Whitespace, 0),
       Lit(<<"[", "P", "r", "i", "o", "r", "i", "t", "y", ":">>, 0), Plus(Whitespace, 0), Plus(Digit, 7), Lit(<<"]">>, 0),
       Plus(Whitespace, 0),
       Lit(<<"{">>, 0), PlusNot({"}"}, 8), Lit(<<"}">>, 0), Plus(Whitespace, 0),
       PlusNot({":"}, 9), Lit(<<":">>, 0), DigitsOrStar(10), Plus(Whitespace, 0),
       Lit(<<"-", ">">>, 0), Plus(Whitespace, 0),
       PlusNot({":"}, 11), Lit(<<":">>, 0), DigitsOrStar(12) >>

\* datetime.strptime(f"{current_year}-{month}-{day} {time_part}",
\* "%Y-%m-%d %H:%M:%S.%f"): the fields of a text the pattern's first group
\* matched stand at fixed positions; a date the calendar of the year does not
\* have, a time of day out of range or a fraction of more than six digits
\* raises, and _parse_timestamp then returns datetime.now().
IsLeap(year) == (year % 4 = 0 /\ year % 100 # 0) \/ year % 400 = 0
DaysIn(month, year) ==
    IF month = 2 THEN (IF IsLeap(year) THEN 29 ELSE 28)
    ELSE IF month \in {4, 6, 9, 11} THEN 30 ELSE 31
RECURSIVE PadRight(_, _)
PadRight(ds, n) == IF Len(ds) >= n THEN ds ELSE PadRight(Append(ds, "0"), n)
parse_timestamp(timestamp_str, current_year, at) ==
    LET month  == IntOf(SubSeq(timestamp_str, 1, 2))
        day    == IntOf(SubSeq(timestamp_str, 4, 5))
        hour   == IntOf(SubSeq(timestamp_str, 7, 8))
        minute == IntOf(SubSeq(timestamp_str, 10, 11))
        second == IntOf(SubSeq(timestamp_str, 13, 14))
        frac   == SubSeq(timestamp_str, 16, Len(timestamp_str))
    IN IF /\ month \in 1..12 /\ day \in 1..DaysIn(month, current_year)
          /\ hour < 24 /\ minute < 60 /\ second < 60 /\ Len(frac) <= 6
       THEN [year |-> current_year, month |-> month, day |-> day, hour |-> hour,
             minute |-> minute, second |-> second,
             microsecond |-> IntOf(PadRight(frac, 6))]
       ELSE [now |-> at]

\* int(port) if port != '*' else None
PortOf(text) == IF text = <<"*">> THEN NoPort ELSE Port(IntOf(text))

\* AlertParser.parse_alert: what it returns (no record or one) and what it
\* adds to the counters.  current_year and `at` are datetime.now() at the call.
NotCounted == [returned |-> <<>>, parsed |-> 0, error |-> 0]
Parsed(line, found, current_year, at) ==
    [timestamp |-> parse_timestamp(Group(ALERT_PATTERN, line, found, 1), current_year, at),
     raw_alert |-> line]
    @@ SnortAlert(IntOf(Group(ALERT_PATTERN, line, found, 7)),
                  StripText(Group(ALERT_PATTERN, line, found, 6)),
                  StripText(Group(ALERT_PATTERN, line, found, 5)),
                  UpperText(Group(ALERT_PATTERN, line, found, 8)),
                  StripText(Group(ALERT_PATTERN, line, found, 9)),
                  PortOf(Group(ALERT_PATTERN, line, found, 10)),
                  StripText(Group(ALERT_PATTERN, line, found, 11)),
                  PortOf(Group(ALERT_PATTERN, line, found, 12)),
                  IntOf(Group(ALERT_PATTERN, line, found, 3)),
                  IntOf(Group(ALERT_PATTERN, line, found, 4)))
ParseStripped(line, current_year, at) ==
    IF line = <<>> THEN NotCounted
    ELSE Apply(LAMBDA found :
                   IF found = NoMatch THEN [NotCounted EXCEPT !.error = 1]
                   ELSE [returned |-> <<Parsed(line, found, current_year, at)>>,
                         parsed |-> 1, error |-> 0],
               Match(ALERT_PATTERN, line))
parse_alert(alert_line, current_year, at) ==
    Apply(LAMBDA line : ParseStripped(line, current_year, at), StripText(alert_line))

\* AlertParser.parse_alerts_batch: parse_alert on every line in order; the
\* records of the lines that gave one, and what the calls add to the counters
ParseUntilFailure(alert_lines, current_year, at) ==
    Apply(LAMBDA results :
              LET stop == IF \E i \in 1..Len(results) : results[i].error = 1
                          THEN CHOOSE i \in 1..Len(results) :
                                   /\ results[i].error = 1
                                   /\ \A j \in 1..(i - 1) : results[j].error = 0
                          ELSE Len(results) + 1
                  kept == SelectSeq([i \in 1..(stop - 1) |-> i], LAMBDA i : results[i].parsed = 1)
              IN [returned |-> [j \in 1..Len(kept) |-> results[kept[j]].returned[1]],
                  parsed |-> Len(kept),
                  error |-> IF stop <= Len(results) THEN 1 ELSE 0],
          [i \in 1..Len(alert_lines) |-> parse_alert(alert_lines[i], current_year, at)])
parse_alerts_batch(alert_lines, current_year, at) ==
    Apply(LAMBDA results :
              LET kept == SelectSeq([i \in 1..Len(results) |-> i], LAMBDA i : results[i].returned # <<>>)
              IN [returned |-> [j \in 1..Len(kept) |-> results[kept[j]].returned[1]],
                  parsed |-> Cardinality({i \in 1..Len(results) : results[i].parsed = 1}),
                  error |-> Cardinality({i \in 1..Len(results) : results[i].error = 1})],
          [i \in 1..Len(alert_lines) |-> parse_alert(alert_lines[i], current_year, at)])

\* str(n) of a natural number
RECURSIVE Decimal(_)
Decimal(n) == IF n < 10 THEN <<DigitChars[n + 1]>> ELSE Decimal(n \div 10) \o <<DigitChars[(n % 10) + 1]>>
PortText(port) == IF port = NoPort THEN <<"*">> ELSE Decimal(port[1])

\* A line of the alert log as the sensor writes it (alert_fast), from the
\* fields of the alert.
Render(f) ==
    f.timestamp \o <<" ", " ", "[", "*", "*", "]", " ", "[">> \o Decimal(f.gid) \o <<":">> \o Decimal(f.sid) \o <<":">>
    \o Decimal(f.rev) \o <<"]", " ">> \o f.message \o <<" ", "[", "*", "*", "]", " ", "[", "C", "l", "a", "s", "s", "i", "f", "i", "c", "a", "t", "i", "o", "n", ":", " ">>
    \o f.classification \o <<"]", " ", "[", "P", "r", "i", "o", "r", "i", "t", "y", ":", " ">> \o Decimal(f.priority) \o <<"]", " ", "{">>
    \o f.protocol \o <<"}", " ">> \o f.src_ip \o <<":">> \o PortText(f.src_port)
    \o <<" ", "-", ">", " ">> \o f.dst_ip \o <<":">> \o PortText(f.dst_port)

\* The alerts the sensor reports: the one of the parsing test; one without
\* ports; one of the last day of February; one whose message names its
\* source in brackets.
\* 10/26-11:09:09.414867  [**] [1:1000001:1] SSH Connection Attempt [**]
\* [Classification: Attempted Administrator Privilege Gain] [Priority: 1]
\* {TCP} 192.168.1.100:22 -> 192.168.1.200:54321
SshAttempt ==
    [timestamp |-> <<"1", "0", "/", "2", "6", "-", "1", "1", ":", "0", "9", ":", "0", "9", ".", "4", "1", "4", "8", "6", "7">>, gid |-> 1]
    @@ SnortAlert(1, <<"A", "t", "t", "e", "m", "p", "t", "e", "d", " ", "A", "d", "m", "i", "n", "i", "s", "t", "r", "a", "t", "o", "r", " ", "P", "r", "i", "v", "i", "l", "e", "g", "e", " ", "G", "a", "i", "n">>, <<"S", "S", "H", " ", "C", "o", "n", "n", "e", "c", "t", "i", "o", "n", " ", "A", "t", "t", "e", "m", "p", "t">>,
                  <<"T", "C", "P">>, <<"1", "9", "2", ".", "1", "6", "8", ".", "1", ".", "1", "0", "0">>, Port(22), <<"1", "9", "2", ".", "1", "6", "8", ".", "1", ".", "2", "0", "0">>, Port(54321), 1000001, 1)
\* 11/02-08:00:00.000001  [**] [1:384:5] ICMP PING [**]
\* [Classification: Misc activity] [Priority: 3] {ICMP} 8.8.8.8:* -> 10.0.0.5:*
PingSweep ==
    [timestamp |-> <<"1", "1", "/", "0", "2", "-", "0", "8", ":", "0", "0", ":", "0", "0", ".", "0", "0", "0", "0", "0", "1">>, gid |-> 1]
    @@ SnortAlert(3, <<"M", "i", "s", "c", " ", "a", "c", "t", "i", "v", "i", "t", "y">>, <<"I", "C", "M", "P", " ", "P", "I", "N", "G">>, <<"I", "C", "M", "P">>, <<"8", ".", "8", ".", "8", ".", "8">>, NoPort,
                  <<"1", "0", ".", "0", ".", "0", ".", "5">>, NoPort, 384, 5)
\* 02/29-23:59:59.5  [**] [1:1228:7] SCAN nmap [**]
\* [Classification: Attempted Recon] [Priority: 2] {UDP} 10.0.0.5:161 -> 10.0.0.9:*
LeapDayScan ==
    [timestamp |-> <<"0", "2", "/", "2", "9", "-", "2", "3", ":", "5", "9", ":", "5", "9", ".", "5">>, gid |-> 1]
    @@ SnortAlert(2, <<"A", "t", "t", "e", "m", "p", "t", "e", "d", " ", "R", "e", "c", "o", "n">>, <<"S", "C", "A", "N", " ", "n", "m", "a", "p">>, <<"U", "D", "P">>, <<"1", "0", ".", "0", ".", "0", ".", "5">>, Port(161),
                  <<"1", "0", ".", "0", ".", "0", ".", "9">>, NoPort, 1228, 7)
\* 10/26-11:09:10.000200  [**] [1:2024001:2] ET MALWARE [PTsecurity] Backdoor [**]
\* [Classification: A Network Trojan was detected] [Priority: 1]
\* {TCP} 10.0.0.5:49152 -> 203.0.113.9:443
Backdoor ==
    [timestamp |-> <<"1", "0", "/", "2", "6", "-", "1", "1", ":", "0", "9", ":", "1", "0", ".", "0", "0", "0", "2", "0", "0">>, gid |-> 1]
    @@ SnortAlert(1, <<"A", " ", "N", "e", "t", "w", "o", "r", "k", " ", "T", "r", "o", "j", "a", "n", " ", "w", "a", "s", " ", "d", "e", "t", "e", "c", "t", "e", "d">>, <<"E", "T", " ", "M", "A", "L", "W", "A", "R", "E", " ", "[", "P", "T", "s", "e", "c", "u", "r", "i", "t", "y", "]", " ", "B", "a", "c", "k", "d", "o", "o", "r">>,
                  <<"T", "C", "P">>, <<"1", "0", ".", "0", ".", "0", ".", "5">>, Port(49152), <<"2", "0", "3", ".", "0", ".", "1", "1", "3", ".", "9">>, Port(443), 2024001, 2)
RenderedAlerts == {SshAttempt, PingSweep, LeapDayScan, Backdoor}
\* a line cut short by the end of a write, and a blank line
\* 10/26-11:09:09.414867  [**] [1:1000001:1] SSH Conn
CutLine == <<"1", "0", "/", "2", "6", "-", "1", "1", ":", "0", "9", ":", "0", "9", ".", "4", "1", "4", "8", "6", "7", " ", " ", "[", "*", "*", "]", " ", "[", "1", ":", "1", "0", "0", "0", "0", "0", "1", ":", "1", "]", " ", "S", "S", "H", " ", "C", "o", "n", "n">>
WhiteLine == <<" ", "\t">>
InputLines == {Render(f) : f \in RenderedAlerts} \cup {CutLine, WhiteLine}
\* datetime.now().year: the calls of a behaviour fall in one calendar year,
\* which is no leap year; datetime.now() is one of two instants of it
Years == {2026}
Instants == {1, 2}

\* The parser: its counters, the lines still to come, the lines given to it
\* so far, and its last call (repeated: it was a second call on its line).
NewParser(input, current_year) ==
    [current_year |-> current_year, input |-> input, parsed_count |-> 0, error_count |-> 0,
     processed |-> <<>>, op |-> "none", repeated |-> FALSE, given |-> <<>>, returned |-> <<>>]
Counted(res, op, given) ==
    [parser EXCEPT !.parsed_count = @ + res.parsed, !.error_count = @ + res.error,
                   !.processed = @ \o given, !.op = op, !.repeated = FALSE,
                   !.given = given, !.returned = res.returned]

\* parser.parse_alert(line) on the next line of the input
ParseAlert ==
    /\ parser.input # <<>>
    /\ \E at \in Instants :
          parser' = [Counted(parse_alert(Head(parser.input), parser.current_year, at),
                             "parse_alert", <<Head(parser.input)>>)
                     EXCEPT !.input = Tail(@)]
    /\ UNCHANGED othersOfParse

\* parser.parse_alert(line) once more on the line of the last call
ParseAlertAgain ==
    /\ parser.op = "parse_alert"
    /\ ~parser.repeated
    /\ \E at \in Instants :
          parser' = [Counted(parse_alert(parser.given[1], parser.current_year, at),
                             "parse_alert", parser.given)
                     EXCEPT !.repeated = TRUE]
    /\ UNCHANGED othersOfParse

\* parser.parse_alerts_batch(alert_lines) on the next lines of the input
ParseAlertsBatch ==
    /\ \E n \in 1..Len(parser.input), at \in Instants :
          parser' = [Counted(parse_alerts_batch(SubSeq(parser.input, 1, n), parser.current_year, at),
                             "parse_alerts_batch", SubSeq(parser.input, 1, n))
                     EXCEPT !.input = SubSeq(@, n + 1, Len(@))]
    /\ UNCHANGED othersOfParse

InitParseOver(inputs, years) == parser \in {NewParser(i, y) : i \in inputs, y \in years}
NextParse == ParseAlert \/ ParseAlertAgain \/ ParseAlertsBatch
NoInput == {<<>>}
InputsToParse == SeqsUpTo(InputLines, MaxInput) \ {<<>>}

(***************************************************************************)
(* MLRunnerConfig (ml_runner/config.py): to_file and from_file.  A field  *)
(* holds a str, an int, a float (in hundredths) or None; the dataclass    *)
(* does not check the type of what is assigned to a field.  to_file writes *)
(* the JSON text of the instance's attributes, from_file reads it back     *)
(* into a new instance.                                                    *)
(***************************************************************************)
MaxChanged == 2
\* fields assigned to before the configuration is saved

IntValue(n) == [t |-> "int", s |-> "", n |-> n]
FloatValue(n) == [t |-> "float", s |-> "", n |-> n]
NoneValue == [t |-> "none", s |-> "", n |-> 0]

\* MLRunnerConfig(): the fields and their defaults
DefaultConfig ==
    [snort_alert_file |-> Str("/var/log/snort/alert_fast.txt"),
     snort_config_dir |-> Str("/etc/snort"),
     snort_rules_file |-> Str("/etc/snort/rules/ml_generated.rules"),
     snort_binary |-> Str("/usr/local/bin/snort"),
     ml_model_type |-> Str("openai"),
     ml_model_name |-> Str("gpt-4"),
     ml_api_key |-> NoneValue,
     ml_api_endpoint |-> NoneValue,
     confidence_threshold |-> FloatValue(confidence_threshold),
     max_alerts_per_batch |-> IntValue(max_alerts_per_batch),
     processing_interval |-> FloatValue(processing_interval * 100),
     max_concurrent_analyses |-> IntValue(max_concurrent_analyses),
     rule_sid_start |-> IntValue(rule_sid_start),
     rule_prefix |-> Str("ML_GENERATED"),
     rule_classtype |-> Str("trojan-activity"),
     rule_priority |-> IntValue(rule_priority),
     log_level |-> Str("INFO"),
     log_file |-> Str("/var/log/snort/ml_runner.log"),
     log_max_bytes |-> IntValue(10485760),
     log_backup_count |-> IntValue(5),
     alert_history_file |-> Str("/var/log/snort/alert_history.json"),
     rule_history_file |-> Str("/var/log/snort/rule_history.json"),
     max_history_days |-> IntValue(30)]
Fields == DOMAIN DefaultConfig

\* The values assigned to a field: None, a text, the text "null", an int
\* and two floats, one of them of integral value.
ValuesGiven ==
    {NoneValue, Str("local"), Str("null"), IntValue(1), FloatValue(95), FloatValue(100)}

\* json.dump of a value: a string, a number written with or without a
\* decimal point (repr of a float always has one, or an exponent), or null.
JsonString(text) == [k |-> "string", text |-> text, n |-> 0, point |-> FALSE]
JsonNumber(n, point) == [k |-> "number", text |-> "", n |-> n, point |-> point]
JsonNull == [k |-> "null", text |-> "", n |-> 0, point |-> FALSE]
json_dump(value) ==
    CASE value.t = "str" -> JsonString(value.s)
      [] value.t = "int" -> JsonNumber(value.n, FALSE)
      [] value.t = "float" -> JsonNumber(value.n, TRUE)
      [] OTHER -> JsonNull

\* json.load of a value: a number with a decimal point is a float, one
\* without is an int.
json_load(token) ==
    CASE token.k = "string" -> Str(token.text)
      [] token.k = "number" -> (IF token.point THEN FloatValue(token.n)
                                ELSE IntValue(token.n))
      [] OTHER -> NoneValue

\* to_file: {key: value for key, value in self.__dict__.items()
\*           if not key.startswith('_')}; no field name starts with '_'.
to_file(config) == [key \in DOMAIN config |-> json_dump(config[key])]

\* The keys the loader of from_env takes from a configuration file.
SecureConfigKeys ==
    {"ml_api_key", "ml_model_type", "ml_model_name", "ml_api_endpoint",
     "confidence_threshold", "max_alerts_per_batch", "processing_interval"}

\* Variant of from_file that takes the keys of from_env's loader only.
FromSecureConfig(config_data) ==
    [key \in Fields |->
        IF key \in DOMAIN config_data \cap SecureConfigKeys
        THEN json_load(config_data[key]) ELSE DefaultConfig[key]]

\* from_file: config = cls(); for key, value in config_data.items():
\*     if hasattr(config, key): setattr(config, key, value)
from_file(config_data) ==
    [key \in Fields |->
        IF key \in DOMAIN config_data
        THEN json_load(config_data[key]) ELSE DefaultConfig[key]]

NoFile == <<>>
NewConfig ==
    [pc |-> "created", config |-> DefaultConfig, changed |-> 0, file |-> NoFile,
     loaded |-> DefaultConfig]

\* custom_config.<field> = <value>
SetAttr ==
    /\ cfg.pc = "created"
    /\ cfg.changed < MaxChanged
    /\ \E key \in Fields, value \in ValuesGiven :
         cfg' = [cfg EXCEPT !.config[key] = value, !.changed = @ + 1]
    /\ UNCHANGED othersOfConfig

\* custom_config.to_file(config_file)
ToFile ==
    /\ cfg.pc = "created"
    /\ cfg' = [cfg EXCEPT !.pc = "saved", !.file = to_file(cfg.config)]
    /\ UNCHANGED othersOfConfig

\* loaded_config = MLRunnerConfig.from_file(config_file)
FromFile ==
    /\ cfg.pc = "saved"
    /\ cfg' = [cfg EXCEPT !.pc = "loaded", !.loaded = from_file(cfg.file)]
    /\ UNCHANGED othersOfConfig

InitConfig == cfg = NewConfig

NextConfig ==
    \/ SetAttr \/ ToFile \/ FromFile

(***************************************************************************)
(* MLEnhancedRunner: the analysis history and the rule history.  A file is *)
(* the sequence of its entries; of an entry its number and the day of its  *)
(* timestamp are kept.  Time is counted in days.                           *)
(***************************************************************************)
max_history_days == 30

MaxEntries == 3
\* entries written to the two history files
MaxDayPasses == 3
\* times the clock is moved

HistoryEntry(id, day) == [id |-> id, day |-> day]

\* datetime.fromisoformat(entry['timestamp']) > cutoff_date, with
\* cutoff_date = datetime.now() - timedelta(days=config.max_history_days)
AfterCutoff(entry, today) == entry.day > today - max_history_days

\* _save_analysis_history: the entry is appended to what the file holds and
\* the entries after the cutoff are written.
save_analysis_history(history, entry, today) ==
    LET Recent(e) == AfterCutoff(e, today)
    IN SelectSeq(Append(history, entry), Recent)

\* _save_rule_history: history.extend(rule_entries), and the whole list is
\* written.
save_rule_history(history, rule_entries) == history \o rule_entries

NoWrite == [file |-> "none", before |-> <<>>, added |-> <<>>]
NewHistory ==
    [today |-> 0, passes |-> 0, entries |-> 0, analysis |-> <<>>, rules |-> <<>>,
     last |-> NoWrite]

\* _process_analysis_results saves one entry per analysis result, stamped
\* datetime.now().
WriteAnalysisHistory ==
    /\ hist.entries < MaxEntries
    /\ LET entry == HistoryEntry(hist.entries + 1, hist.today)
       IN hist' = [hist EXCEPT
                     !.entries = @ + 1,
                     !.analysis = save_analysis_history(hist.analysis, entry, hist.today),
                     !.last = [file |-> "analysis", before |-> hist.analysis,
                               added |-> <<entry>>]]
    /\ UNCHANGED othersOfHistory

\* _generate_and_apply_rules saves the rules of a deployed batch, each with
\* its created_timestamp, the time of its synthesis in the same flush.
WriteRuleHistory ==
    /\ \E n \in 1..2 :
         /\ hist.entries + n <= MaxEntries
         /\ LET rule_entries == [i \in 1..n |-> HistoryEntry(hist.entries + i, hist.today)]
            IN hist' = [hist EXCEPT
                          !.entries = @ + n,
                          !.rules = save_rule_history(hist.rules, rule_entries),
                          !.last = [file |-> "rules", before |-> hist.rules,
                                    added |-> rule_entries]]
    /\ UNCHANGED othersOfHistory

\* Days pass between two flushes.
DaysPass ==
    /\ hist.passes < MaxDayPasses
    /\ \E d \in {1, max_history_days - 1, max_history_days} :
         hist' = [hist EXCEPT !.today = @ + d, !.passes = @ + 1, !.last = NoWrite]
    /\ UNCHANGED othersOfHistory

InitHistory == hist = NewHistory

NextHistory ==
    \/ WriteAnalysisHistory \/ WriteRuleHistory \/ DaysPass

(***************************************************************************)
(* MLEnhancedRunner.run and the shutdown.  run() has validated the         *)
(* configuration, created its three tasks and waits for shutdown_event.    *)
(* The signal handler creates a task for _shutdown, which sets the event;  *)
(* run() then cancels the three tasks, gathers them, and saves the final   *)
(* statistics in its finally clause.  A task is cancelled at the await it  *)
(* is suspended in; add_rules has none.                                    *)
(***************************************************************************)
MaxSignals == 2
\* SIGINT / SIGTERM deliveries

RunnerTasks == {"monitor", "batch", "stats"}

\* Variant of OnCancelled in which _batch_processor goes on with its loop
\* after a CancelledError.
OnCancelledContinue(t) == IF t = "batch" THEN "running" ELSE "stopped"

\* What CancelledError does to a task: it is no Exception, so the except
\* clauses of start_monitoring, _process_new_alerts and _process_alert_batch
\* let it through and the monitoring task ends; _batch_processor and
\* _stats_reporter catch it and break.
OnCancelled(t) == "stopped"

NewRun ==
    [pc |-> "waiting", signals |-> 0, pending |-> 0, event |-> FALSE,
     tasks |-> [t \in RunnerTasks |-> "running"], final_stats |-> 0,
     stats_written |-> FALSE]

\* _signal_handler: asyncio.create_task(self._shutdown()).  A handler runs
\* between two bytecodes of whatever the main thread executes.
SignalHandler ==
    /\ runner.pc # "returned"
    /\ runner.signals < MaxSignals
    /\ runner' = [runner EXCEPT !.signals = @ + 1, !.pending = @ + 1]
    /\ UNCHANGED batchVars
    /\ UNCHANGED othersOfRun

\* _shutdown: self.alert_monitor.stop(); self.shutdown_event.set()
ShutdownCoroutine ==
    /\ loop_task = "none"
    /\ runner.pc # "returned"
    /\ runner.pending > 0
    /\ runner' = [runner EXCEPT !.pending = @ - 1, !.event = TRUE]
    /\ UNCHANGED batchVars
    /\ UNCHANGED othersOfRun

\* run() after await self.shutdown_event.wait(): cancel() of the three
\* tasks, then the gather.  A cancelled task gets CancelledError at the
\* await it is suspended in: a flush suspended on the analysis is abandoned.
CancelTasks ==
    /\ loop_task = "none"
    /\ runner.pc = "waiting"
    /\ runner.event
    /\ runner' = [runner EXCEPT !.pc = "gathering",
                                 !.tasks = [t \in RunnerTasks |-> "cancelling"]]
    /\ shutdown' = TRUE
    /\ flush' = [t \in Tasks |-> IF flush[t].pc = "analysing"
                                 THEN [flush[t] EXCEPT !.pc = "cancelled"]
                                 ELSE flush[t]]
    /\ lastDecision' = NoDecision
    /\ lastEnd' = NoEnd
    /\ UNCHANGED <<elapsed, alert_batch, nextAlert, polls, loop_task, reports, flushedMax, lost>>
    /\ UNCHANGED othersOfRun

\* A cancelled task is run by the loop and ends.
TaskStops ==
    /\ loop_task = "none"
    /\ \E t \in RunnerTasks :
         /\ runner.tasks[t] = "cancelling"
         /\ runner' = [runner EXCEPT !.tasks[t] = OnCancelled(t)]
    /\ UNCHANGED batchVars
    /\ UNCHANGED othersOfRun

\* await asyncio.gather(monitor_task, batch_task, stats_task,
\*                      return_exceptions=True) returns when the three are done.
RunGatherReturns ==
    /\ loop_task = "none"
    /\ runner.pc = "gathering"
    /\ \A t \in RunnerTasks : runner.tasks[t] = "stopped"
    /\ runner' = [runner EXCEPT !.pc = "finally"]
    /\ UNCHANGED batchVars
    /\ UNCHANGED othersOfRun

\* finally: await self._save_final_stats(), which writes the file or logs
\* the error of the write; then run() returns.
SaveFinalStats ==
    /\ runner.pc = "finally"
    /\ \E written \in BOOLEAN :
         runner' = [runner EXCEPT !.pc = "returned", !.final_stats = @ + 1,
                                  !.stats_written = written]
    /\ UNCHANGED batchVars
    /\ UNCHANGED othersOfRun

InitRun == runner = NewRun

NextRun ==
    \/ NewAlertsArrive \/ PeriodicCheck \/ AnalysisReturns \/ AddRulesGoesOn
    \/ AddRulesReturns \/ StatsReport
    \/ SignalHandler \/ ShutdownCoroutine \/ CancelTasks \/ TaskStops
    \/ RunGatherReturns \/ SaveFinalStats

\* The event loop runs every task that is ready, and add_rules returns (its
\* subprocesses have timeouts).
FairRun ==
    /\ WF_vars(ShutdownCoroutine) /\ WF_vars(CancelTasks) /\ WF_vars(TaskStops)
    /\ WF_vars(RunGatherReturns) /\ WF_vars(SaveFinalStats)
    /\ WF_vars(AddRulesGoesOn) /\ WF_vars(AddRulesReturns)

(***************************************************************************)
(* Specifications.                                                         *)
(***************************************************************************)
Init == InitTail /\ InitDeployOver(BOOLEAN, SeedBackups) /\ InitSidOver(Dirs) /\ InitBatch /\ InitAnalyze /\ InitRetry /\ InitSynthOver(ThresholdsGiven)
        /\ InitFeaturesOver(FeatureAlerts) /\ InitParseOver(InputsToParse, Years) /\ InitConfig /\ InitHistory /\ InitRun
Next == NextTail \/ NextDeploy \/ NextSid \/ NextBatch \/ NextAnalyze \/ NextRetry \/ NextSynth \/ NextFeatures
        \/ NextParse \/ NextConfig \/ NextHistory \/ NextRun
Spec == Init /\ [][Next]_vars

\* The tailer and the writer of the alert log.
InitForTail == InitTail /\ InitDeployOver({FALSE}, {NoBackups}) /\ InitSidOver({<<>>}) /\ InitBatch /\ InitAnalyze /\ InitRetry /\ InitSynth
        /\ InitFeaturesOver(OneAlert) /\ InitParseOver(NoInput, Years) /\ InitConfig /\ InitHistory /\ InitRun
SpecTail == InitForTail /\ [][NextTail]_vars

\* Deployments into a rules file that is absent or present at the start, with
\* or without backups of earlier runs.
InitForDeploy == InitTail /\ InitDeployOver(BOOLEAN, SeedBackups) /\ InitSidOver({<<>>}) /\ InitBatch /\ InitAnalyze /\ InitRetry /\ InitSynth
        /\ InitFeaturesOver(OneAlert) /\ InitParseOver(NoInput, Years) /\ InitConfig /\ InitHistory /\ InitRun
SpecDeploy == InitForDeploy /\ [][NextDeploy]_vars

\* The generator over every rules directory of the bounds.
InitForSid == InitTail /\ InitDeployOver({FALSE}, {NoBackups}) /\ InitSidOver(Dirs) /\ InitBatch /\ InitAnalyze /\ InitRetry /\ InitSynth
        /\ InitFeaturesOver(OneAlert) /\ InitParseOver(NoInput, Years) /\ InitConfig /\ InitHistory /\ InitRun
SpecSid == InitForSid /\ [][NextSid]_vars

\* The batch window, its two flushing tasks, the clock and shutdown.
InitForBatch ==
    InitTail /\ InitDeployOver({FALSE}, {NoBackups}) /\ InitSidOver({<<>>}) /\ InitBatch /\ InitAnalyze /\ InitRetry /\ InitSynth
        /\ InitFeaturesOver(OneAlert) /\ InitParseOver(NoInput, Years) /\ InitConfig /\ InitHistory /\ InitRun
SpecBatch == InitForBatch /\ [][NextBatch]_vars

\* The analysis managers of the two flushing tasks.
InitForAnalyze ==
    InitTail /\ InitDeployOver({FALSE}, {NoBackups}) /\ InitSidOver({<<>>}) /\ InitBatch
        /\ InitAnalyze /\ InitRetry /\ InitSynth
        /\ InitFeaturesOver(OneAlert) /\ InitParseOver(NoInput, Years) /\ InitConfig /\ InitHistory /\ InitRun
SpecAnalyze == InitForAnalyze /\ [][NextAnalyze]_vars

\* The retries of the remote-backed analyzer.
InitForRetry ==
    InitTail /\ InitDeployOver({FALSE}, {NoBackups}) /\ InitSidOver({<<>>}) /\ InitBatch
        /\ InitAnalyze /\ InitRetry /\ InitSynth
        /\ InitFeaturesOver(OneAlert) /\ InitParseOver(NoInput, Years) /\ InitConfig /\ InitHistory /\ InitRun
SpecRetry == InitForRetry /\ [][NextRetry]_vars

\* Rule synthesis by a generator built over an empty rules directory, in a
\* process configured with any of the thresholds.
InitForSynth ==
    InitTail /\ InitDeployOver({FALSE}, {NoBackups}) /\ InitSidOver({<<>>}) /\ InitBatch
        /\ InitAnalyze /\ InitRetry /\ InitSynthOver(ThresholdsGiven)
        /\ InitFeaturesOver(OneAlert) /\ InitParseOver(NoInput, Years) /\ InitConfig /\ InitHistory /\ InitRun
SpecSynth == InitForSynth /\ [][NextSynth]_vars

\* The feature extractor over every record of the bounds.
InitForFeatures ==
    InitTail /\ InitDeployOver({FALSE}, {NoBackups}) /\ InitSidOver({<<>>}) /\ InitBatch
        /\ InitAnalyze /\ InitRetry /\ InitSynth
        /\ InitFeaturesOver(FeatureAlerts) /\ InitParseOver(NoInput, Years) /\ InitConfig /\ InitHistory /\ InitRun
SpecFeatures == InitForFeatures /\ [][NextFeatures]_vars

\* The parser over every input of the bounds.
InitForParse ==
    InitTail /\ InitDeployOver({FALSE}, {NoBackups}) /\ InitSidOver({<<>>}) /\ InitBatch
        /\ InitAnalyze /\ InitRetry /\ InitSynth
        /\ InitFeaturesOver(OneAlert) /\ InitParseOver(InputsToParse, Years) /\ InitConfig /\ InitHistory /\ InitRun
SpecParse == InitForParse /\ [][NextParse]_vars

\* A configuration changed in up to MaxChanged fields, saved and loaded.
InitForConfig ==
    InitTail /\ InitDeployOver({FALSE}, {NoBackups}) /\ InitSidOver({<<>>}) /\ InitBatch
        /\ InitAnalyze /\ InitRetry /\ InitSynth
        /\ InitFeaturesOver(OneAlert) /\ InitParseOver(NoInput, Years) /\ InitConfig /\ InitHistory /\ InitRun
SpecConfig == InitForConfig /\ [][NextConfig]_vars

\* The history files over several flushes, days apart.
InitForHistory == InitForConfig
SpecHistory == InitForHistory /\ [][NextHistory]_vars

\* run() from its wait for the shutdown event to its return, with the
\* flushes of its tasks, under the fairness of the event loop.  run() has
\* been waiting for no time or for more than processing_interval.
InitForRun ==
    InitTail /\ InitDeployOver({FALSE}, {NoBackups}) /\ InitSidOver({<<>>})
        /\ InitBatchOver({0, processing_interval + 1})
        /\ InitAnalyze /\ InitRetry /\ InitSynth
        /\ InitFeaturesOver(OneAlert) /\ InitParseOver(NoInput, Years) /\ InitConfig /\ InitHistory /\ InitRun
SpecRun == InitForRun /\ [][NextRun]_vars /\ FairRun

(***************************************************************************)
(* Properties of the tailer.                                               *)
(***************************************************************************)
Range(q) == {q[i] : i \in DOMAIN q}
Count(q, x) == Cardinality({i \in DOMAIN q : q[i] = x})
\* payload characters handed to the callback so far
CharsReturned == UNION {Range(returned[i]) : i \in DOMAIN returned}

\* C4: a poll that finds the log smaller than the stored offset puts the
\* cursor back inside the file (it re-reads from offset 0), so that polls do
\* not stay empty while the file has content.
C4_ShrinkResetsCursor ==
    (lastPoll.kind \in {"skip", "read"} /\ lastPoll.size < lastPoll.before
       /\ lastPoll.size >= 3)
        => lastPoll.after <= lastPoll.size

\* C5: when the writer only appends complete lines (no truncation, no rotation,
\* no line written in two parts), no line is handed to the callback twice,
\* whatever the interleaving of appends and polls.
C5_NoLineReturnedTwice ==
    (~tailHist.shrunk /\ ~tailHist.split)
        => \A k \in 1..MaxLines : Count(returned, WholeLine(k)) <= 1

\* C6: a line whose terminator is not yet in the file at poll time is not
\* returned in part: every piece handed to the callback that belongs to a line
\* begun after monitoring started is that whole line.
C6_NoFragmentReturned ==
    ~tailHist.shrunk
        => \A i \in DOMAIN returned :
             LineOf(returned[i][1]) >= tailHist.firstNew
                 => returned[i] = WholeLine(LineOf(returned[i][1]))

\* C7: no character of a line that was complete in the log before monitoring
\* started is ever handed to the callback.
C7_NoHistoryReplayed ==
    tailHist.started => \A c \in CharsReturned : LineOf(c) >= tailHist.startLine

\* C7 witness: monitoring started on a log holding complete lines, and lines
\* appended afterwards were returned.
C7_Witness ==
    /\ tailHist.started
    /\ tailHist.startLine > 1
    /\ tailHist.startSize > 0
    /\ returned # <<>>

\* C8: a poll that failed returned nothing and left the cursor where it was;
\* the loop ends only after stop(); and, the log not having shrunk, every
\* payload character between the start mark and the cursor has been handed to
\* the callback, so what a failed poll did not read is not skipped.
C8_FailedPollHarmless ==
    /\ lastPoll.kind = "fail" => (lastPoll.after = lastPoll.before /\ lastPoll.ret = <<>>)
    /\ monPc = "stopped" => ~running
    /\ (tailHist.started /\ ~tailHist.shrunk /\ monPc # "init")
         => \A i \in (tailHist.startSize + 1)..Min(last_position, Len(alert_file)) :
              alert_file[i] > 0 => alert_file[i] \in CharsReturned

\* C8 witness: the poll after a failed poll read and returned lines, the loop
\* still running.
C8_Witness ==
    /\ lastPoll.kind = "read"
    /\ lastPoll.afterFail
    /\ lastPoll.ret # <<>>
    /\ running
    /\ monPc = "idle"

(***************************************************************************)
(* Properties of deployment.                                               *)
(***************************************************************************)
\* C1: after an add_rules call whose configuration test failed, the rules
\* file is what it was immediately before the call.
C1_FailedTestRestoresStore ==
    (depPc = "idle" /\ call.test = "failed")
        => (rules_exists = call.pre_exists /\ rules_content = call.pre_content)

\* C2: in every state, the rules file the sensor reads holds only batches of
\* deployments whose configuration test passed.
C2_StoreHoldsOnlyValidated ==
    \A i \in DOMAIN rules_content :
        rules_content[i].kind = "hdr" => rules_content[i].dep \in validated

\* C9: once add_rules has written, the rules file is its content before the
\* call followed by the lines of this call, and the rule lines among these are
\* exactly the raw texts of the candidates that pass validate_rule, in
\* candidate order.
AcceptedTexts == 
    LET accepted == SelectSeq(rules, validate_rule)
    IN [i \in 1..Len(accepted) |-> accepted[i].raw_rule]
C9_WrittenAreTheValid ==
    depPc \in {"appended", "tested"} =>
        LET base  == IF call.pre_exists THEN call.pre_content ELSE <<>>
            added == SubSeq(rules_content, Len(base) + 1, Len(rules_content))
            ruleLines == SelectSeq(added, LAMBDA l : l.kind = "rule")
        IN /\ SubSeq(rules_content, 1, Len(base)) = base
           /\ [i \in 1..Len(ruleLines) |-> ruleLines[i].raw] = AcceptedTexts

\* C9 witness: a batch whose first candidate is rejected and whose second is
\* accepted has been written.
C9_Witness ==
    /\ depPc = "appended"
    /\ Len(rules) = 2
    /\ ~validate_rule(rules[1])
    /\ validate_rule(rules[2])

\* C10: add_rules returns True only when it appended accepted rules, the
\* configuration test passed and a reload mechanism succeeded.
C10_SuccessMeansDeployed ==
    (depPc = "idle" /\ result = "true")
        => (call.wrote /\ call.test = "passed" /\ call.reload = "ok")

\* C11: when _reload_snort has run, the fallback (pkill -HUP) was attempted
\* exactly once if the primary (systemctl reload) failed in any way (non-zero
\* exit, timeout, launch error) and not at all if the primary succeeded.
C11_FallbackAfterFailedPrimary ==
    call.reload # "none"
        => call.fallback_runs = (IF call.primary = "ok" THEN 0 ELSE 1)

\* C12: after an add_rules call whose configuration test passed and whose
\* reload failed, the rules file is its content before the call followed by
\* the batch of this call (nothing was restored), add_rules returned False,
\* and stats['rules_generated'] and the rule history are what they were
\* before the call.
C12_ReloadFailureKeepsRules ==
    (depPc = "idle" /\ call.test = "passed" /\ call.reload = "failed")
        => LET base == IF call.pre_exists THEN call.pre_content ELSE <<>>
           IN /\ result = "false"
              /\ applied = call.pre_applied
              /\ Len(rules_content) >= Len(base) + 4
              /\ SubSeq(rules_content, 1, Len(base)) = base
              /\ rules_content[Len(base) + 2] = HeaderLine(call.id)
              /\ rules_content[Len(base) + 3].kind = "rule"

\* C12 witness: a call has returned after a passed test and a reload in
\* which the primary exited non-zero and the fallback failed too.
C12_Witness ==
    /\ depPc = "idle"
    /\ call.test = "passed"
    /\ call.reload = "failed"
    /\ call.primary = "nonzero"
    /\ call.pre_exists

FlushInProgress(t) == flush[t].pc \in {"analysing"} \cup DeployPcs

\* C13: no two tasks are inside add_rules at once: while one execution is
\* between its backup and its return, no other execution takes a step.
C13_DeploymentsSerialized ==
    \A t1, t2 \in Tasks :
        (flush[t1].pc \in DeployPcs /\ flush[t2].pc \in DeployPcs) => t1 = t2

\* C13 witness: one flush is inside add_rules, past its append, while the
\* flush of the other task is in progress.
C13_Witness ==
    /\ flush["batch"].pc = "appended"
    /\ flush["monitor"].pc = "analysing"

\* C15: at most one _process_alert_batch execution is in progress.
C15_OneFlushAtATime ==
    ~(FlushInProgress("monitor") /\ FlushInProgress("batch"))

\* C16: when a flush has just ended, normally or through the except clause,
\* the window is empty and last_batch_process is the present time.
C16_FlushEndResetsWindow ==
    lastEnd.kind # "none" => (alert_batch = <<>> /\ elapsed = 0)

C18_NoAlertLost == lost = {}

(***************************************************************************)
(* Properties of the analysis.                                             *)
(***************************************************************************)
\* C19: the analysis calls outstanding at the analyzer, over all the managers
\* of the runner, are at most max_concurrent_analyses.
C19_OutstandingWithinLimit ==
    Cardinality(Outstanding(mgr["monitor"])) + Cardinality(Outstanding(mgr["batch"])) <= 3

\* C20: the i-th collected result is the outcome of the analysis of the i-th
\* dispatched item, and every processed pair joins an alert with the result
\* of its own analysis.
C20_ResultsFollowItems ==
    /\ \A t \in Tasks : \A i \in DOMAIN mgr[t].results :
          /\ mgr[t].st[i] = "done" <=> mgr[t].results[i] # NoResult
          /\ mgr[t].results[i] # NoResult => mgr[t].results[i].of = mgr[t].items[i]
    /\ \A k \in DOMAIN paired : paired[k][1] = paired[k][2]

\* C20 witness: in a flush of four items the fourth call has completed
\* while the first is still outstanding.
C20_Witness ==
    \E t \in Tasks :
        /\ Len(mgr[t].items) = 4
        /\ mgr[t].st[1] = "outstanding"
        /\ mgr[t].st[4] = "done"

\* C21: when the analysis of one item of a flush fails, only that item is
\* left out: every other item of the flush, whose analysis returned a result,
\* goes once into the loop of _process_analysis_results (history, threshold
\* test for rule synthesis), and nothing else does.
C21_FailureIsolated ==
    [][\A t \in Tasks :
          (mgr[t].active /\ ~mgr'[t].active) =>
             /\ \A i \in DOMAIN mgr[t].items :
                   (mgr[t].results[i].kind = "result") =>
                      Cardinality({k \in DOMAIN paired' :
                                     paired'[k] = <<mgr[t].items[i], mgr[t].items[i]>>}) = 1
             /\ Len(paired') =
                   Cardinality({i \in DOMAIN mgr[t].items :
                                   mgr[t].results[i].kind = "result"})]_vars

\* C21 witness: an item was processed although an item before it in the same
\* flush had failed.
C21_Witness ==
    \E k \in DOMAIN paired : paired[k][1] > k

(***************************************************************************)
(* Properties of the remote-backed analyzer.                               *)
(***************************************************************************)
\* C22: for every alert the analyzer makes at most max_retries attempts; the
\* call never ends otherwise than by returning a result (it neither raises
\* nor ends without one); a parsed response is returned only from an attempt
\* that succeeded, and when all attempts failed the default result is
\* returned: confidence 0.5, classification analysis_error, action
\* investigate.
C22_BoundedRetriesThenDefault ==
    /\ Len(analyzer.tried) <= max_retries
    /\ analyzer.attempt < max_retries
    /\ analyzer.pc = "returned" =>
          /\ analyzer.outcome \in {"result", "default"}
          /\ analyzer.outcome = "result" =>
                analyzer.tried[Len(analyzer.tried)] = "ok"
          /\ (\A i \in DOMAIN analyzer.tried : analyzer.tried[i] # "ok") =>
                /\ analyzer.outcome = "default"
                /\ Len(analyzer.tried) = max_retries
                /\ analyzer.returned.confidence = Conf(50)
                /\ analyzer.returned.threat_classification = "analysis_error"
                /\ analyzer.returned.recommended_action = "investigate"

\* C22 witness: a call whose three attempts failed, with two sleeps between
\* them, has returned the default result.
C22_Witness ==
    /\ analyzer.pc = "returned"
    /\ analyzer.tried = <<"error", "json_error", "error">>
    /\ analyzer.slept = 2
    /\ analyzer.outcome = "default"
    /\ analyzer.error_count = 1

(***************************************************************************)
(* Properties of rule synthesis.                                           *)
(***************************************************************************)
\* The analysis of a call is at or above the threshold.
AboveThreshold(c) ==
    ~c.analysis.confidence.nan /\ c.analysis.confidence.v >= config_confidence_threshold
\* The rule text grammar: <action> <protocol> <src_addr> <src_port> <direction>
\* <dst_addr> <dst_port> (<options>) with an action of alert, drop, reject, pass.
MatchesRuleGrammar(text) ==
    /\ text.action \in RuleActions
    /\ text.protocol \in WordTokens
    /\ text.src_addr # "" /\ text.src_port # Str("")
    /\ text.direction \in DirTokens
    /\ text.dst_addr # "" /\ text.dst_port # Str("")
    /\ text.options # <<>>
\* The rule of a call came from the generated path.
FromAlert(c) ==
    generate_rule_from_alert(c.alert, c.analysis, c.before) = Produced(c.rule, c.after)

\* C23: a rule is synthesized only from an analysis result whose confidence
\* is at least the configured confidence_threshold, in a flush of the runner and in a call of
\* the generator alone; for a result below the threshold
\* generate_rule_from_ml_analysis returns none and consumes no SID.
C23_RulesOnlyAboveThreshold ==
    /\ \A i \in DOMAIN synth.calls :
         LET c == synth.calls[i]
         IN /\ c.kind = "rule" => AboveThreshold(c)
            /\ (~c.analysis.confidence.nan
                  /\ c.analysis.confidence.v < config_confidence_threshold) =>
                  (c.kind = "none" /\ c.after = c.before)
    /\ synth.via = "runner" =>
         \A i \in DOMAIN synth.calls :
            \E k \in DOMAIN synth.results :
               /\ synth.results[k] = <<synth.calls[i].alert, synth.calls[i].analysis>>
               /\ AboveThreshold(synth.calls[i])

\* C23 witness: a flush whose first result has no comparable confidence and
\* whose second is exactly at the threshold gave one rule, from the second.
C23_Witness ==
    /\ synth.via = "runner"
    /\ config_confidence_threshold = confidence_threshold
    /\ Len(synth.results) = 2
    /\ synth.results[1][2].confidence = NaN
    /\ synth.results[2][2].confidence = Conf(confidence_threshold)
    /\ Len(synth.calls) = 1
    /\ synth.calls[1].kind = "rule"
    /\ synth.calls[1].analysis = synth.results[2][2]

\* C24: every call of generate_rule_from_ml_analysis that returns a rule
\* gives it the value of the next-SID counter and advances the counter by
\* exactly one, on the suggested path, on the generated path and after a
\* fallback; every call that returns none leaves the counter unchanged.
C24_OneSidPerRule ==
    /\ \A i \in DOMAIN synth.calls :
         LET c == synth.calls[i]
         IN /\ c.kind \in {"rule", "none"}
            /\ c.kind = "rule" => (c.rule.sid = c.before /\ c.after = c.before + 1)
            /\ c.kind = "none" => c.after = c.before
            /\ i < Len(synth.calls) => synth.calls[i + 1].before = c.after
    /\ synth.calls # <<>> => next_sid = synth.calls[Len(synth.calls)].after

\* C24 witness: a call whose suggestion made _parse_suggested_rule raise has
\* returned the rule of the generated path.
C24_Witness ==
    /\ synth.via = "direct"
    /\ synth.calls[1].analysis.rule_suggestion = NonString
    /\ synth.calls[1].kind = "rule"
    /\ FromAlert(synth.calls[1])
    /\ next_sid = synth.calls[1].before + 1

\* C25: for a result at or above the threshold whose suggested-rule text
\* does not match the rule grammar, generate_rule_from_ml_analysis returns
\* the rule built from the alert record by the generated path, and that rule
\* passes validate_rule.
C25_MalformedSuggestionGivesValidRule ==
    \A i \in DOMAIN synth.calls :
       LET c == synth.calls[i]
       IN (/\ AboveThreshold(c)
           /\ c.analysis.rule_suggestion.kind = "text"
           /\ ~MatchesRuleGrammar(c.analysis.rule_suggestion.text)) =>
              /\ c.kind = "rule"
              /\ FromAlert(c)
              /\ validate_rule(c.rule)

\* C26: for a result at or above the threshold whose suggested-rule text
\* matches the rule grammar, with any of its actions and with or without an
\* embedded SID, the returned rule keeps the action, protocol, addresses,
\* ports and direction of the suggestion, carries the freshly allocated SID
\* in place of any embedded one, and has classtype, reference and metadata
\* set from the analysis result.
C26_SuggestionKept ==
    \A i \in DOMAIN synth.calls :
       LET c == synth.calls[i]
           text == c.analysis.rule_suggestion.text
       IN (/\ AboveThreshold(c)
           /\ c.analysis.rule_suggestion.kind = "text"
           /\ MatchesRuleGrammar(text)) =>
              /\ c.kind = "rule"
              /\ c.rule.raw_rule.action = text.action
              /\ c.rule.raw_rule.protocol = text.protocol
              /\ c.rule.raw_rule.src_addr = text.src_addr
              /\ c.rule.raw_rule.src_port = text.src_port
              /\ c.rule.raw_rule.direction = text.direction
              /\ c.rule.raw_rule.dst_addr = text.dst_addr
              /\ c.rule.raw_rule.dst_port = text.dst_port
              /\ c.rule.sid = c.before
              /\ c.rule.raw_rule.sid = c.before
              /\ {"sid", "classtype", "reference", "metadata"} \subseteq c.rule.options
              /\ DictGet(c.rule.values, "sid") = Num(c.before)
              /\ DictGet(c.rule.values, "classtype") =
                    Str(c.analysis.threat_classification)
              /\ DictGet(c.rule.values, "reference") =
                    Reference(c.analysis.confidence)
              /\ DictGet(c.rule.values, "metadata") = Metadata

\* The token of a port of the record: the wildcard exactly when it is absent.
PortOfRecord(port) == IF port = NoPort THEN Str("any") ELSE Num(port[1])

\* C27: on the generated path the action of the rule is drop for a
\* recommended block, reject for reject and alert otherwise; protocol,
\* addresses and ports are those of the alert record, a port is the wildcard
\* exactly when the record has none; the options hold msg, sid, rev,
\* classtype, priority, reference and metadata.
C27_GeneratedRuleFollowsRecord ==
    \A i \in DOMAIN synth.calls :
       LET c == synth.calls[i]
       IN (c.kind = "rule" /\ ~Truthy(c.analysis.rule_suggestion)) =>
             /\ c.rule.raw_rule.action =
                   (CASE c.analysis.recommended_action = "block" -> "drop"
                      [] c.analysis.recommended_action = "reject" -> "reject"
                      [] OTHER -> "alert")
             /\ c.rule.protocol = c.alert.protocol
             /\ c.rule.raw_rule.protocol = Lower(c.alert.protocol)
             /\ c.rule.raw_rule.src_addr = c.alert.src_ip
             /\ c.rule.raw_rule.dst_addr = c.alert.dst_ip
             /\ c.rule.raw_rule.src_port = PortOfRecord(c.alert.src_port)
             /\ c.rule.raw_rule.dst_port = PortOfRecord(c.alert.dst_port)
             /\ {"msg", "sid", "rev", "classtype", "priority", "reference",
                 "metadata"} \subseteq c.rule.options

(***************************************************************************)
(* Properties of the feature extractor.                                    *)
(***************************************************************************)
\* C28: for every alert record the severity score lies in [0, 1] and at
\* most one of is_inbound, is_outbound, is_lateral is true.
C28_ScoreInRangeFlagsExclusive ==
    features.pc = "extracted" =>
       /\ 0 <= features.severity_score
       /\ features.severity_score <= One
       /\ ~(features.is_inbound /\ features.is_outbound)
       /\ ~(features.is_inbound /\ features.is_lateral)
       /\ ~(features.is_outbound /\ features.is_lateral)

\* C28 witness: a record of priority 1 with a high-risk classification, TCP
\* and port 22, from an external to an internal address, got the score 1 and
\* the inbound flag.
C28_Witness ==
    /\ features.pc = "extracted"
    /\ features.alert.priority = 1
    /\ features.alert.classification \in HighRiskTexts
    /\ features.alert.protocol = "TCP"
    /\ features.alert.src_port = Port(22)
    /\ features.severity_score = One
    /\ features.is_inbound

(***************************************************************************)
(* Properties of SID allocation.                                           *)
(***************************************************************************)
\* The SIDs present in the rule store: every sid:<int> occurrence on a line
\* that is no comment, in every readable .rules file of the rules directory.
StoreSids ==
    UNION { UNION { Range(rules_dir[f].lines[l].sids) :
                      l \in {n \in DOMAIN rules_dir[f].lines :
                               ~rules_dir[f].lines[n].comment} } :
              f \in {n \in DOMAIN rules_dir : rules_dir[n].kind = "rules"} }

\* C3: every SID the generator assigns is greater than every SID present in
\* the rule store at construction and greater than every SID it assigned
\* before.
C3_SidsAboveStoreAndFresh ==
    /\ \A i \in DOMAIN issued : \A sid \in StoreSids : issued[i] > sid
    /\ \A i, j \in DOMAIN issued : i < j => issued[i] < issued[j]

(***************************************************************************)
(* Properties of the alert parser.                                         *)
(***************************************************************************)
\* line.strip() is not empty
NonBlank(line) == StripText(line) # <<>>
\* ALERT_PATTERN matches the stripped line
Matching(line) == NonBlank(line) /\ Match(ALERT_PATTERN, StripText(line)) # NoMatch
CountOf(lines, Test(_)) == Cardinality({i \in 1..Len(lines) : Test(lines[i])})

FieldsOf(r) ==
    [message |-> r.message, classification |-> r.classification, priority |-> r.priority,
     protocol |-> r.protocol, src_ip |-> r.src_ip, src_port |-> r.src_port,
     dst_ip |-> r.dst_ip, dst_port |-> r.dst_port, sid |-> r.sid, rev |-> r.rev]

\* C30: for every line rendered in the alert-log grammar from the fields of
\* an alert, parse_alert returns a record whose fields equal the rendered
\* fields (a wildcard port absent), and a further call on the same line
\* returns the same record.
C30_RenderedLineParsesBack ==
    [][parser'.op = "parse_alert" =>
          \A f \in RenderedAlerts :
              parser'.given = <<Render(f)>> =>
                  /\ Len(parser'.returned) = 1
                  /\ FieldsOf(parser'.returned[1]) = FieldsOf(f)
                  /\ (parser.op = "parse_alert" /\ parser.given = parser'.given
                         => parser'.returned = parser.returned)]_vars

(***************************************************************************)
(* Properties of the feature extractor's port tests.                       *)
(***************************************************************************)
\* C40: for every alert record the suspicious_port feature is true exactly
\* when the severity score took the +0.2 suspicious-port increment.
\* Violated: destination port 6667 is a key of the dict of
\* _is_suspicious_port and is not in the list of _calculate_severity_score.
C40_FlagIffPortIncrement ==
    features.pc = "extracted" =>
        (features.suspicious_port <=> features.port_increment)

(***************************************************************************)
(* Properties of the synthesized rule's text.                              *)
(***************************************************************************)
\* C38: every rule returned by generate_rule_from_ml_analysis, on either
\* path and for every alert record and analysis result, passes
\* validate_rule.  Violated: the description is copied into the msg option
\* as it is, and the protocol tag of the record into the rule header.
C38_ReturnedRulePassesValidation ==
    \A i \in DOMAIN synth.calls :
       synth.calls[i].kind = "rule" => validate_rule(synth.calls[i].rule)

\* C39: for every rule returned by the synthesizer the sid field, the
\* value of the sid option and the SID in the rendered text are the same
\* number, and the rendered text holds exactly one sid option.  Violated:
\* the classification is written into the classtype option as it is, and a
\* classification that holds "; sid:42" puts a second sid option into the
\* text.
C39_OneSidInRuleText ==
    \A i \in DOMAIN synth.calls :
       LET c == synth.calls[i]
       IN c.kind = "rule" =>
             /\ "sid" \in c.rule.options
             /\ DictGet(c.rule.values, "sid") = Num(c.rule.sid)
             /\ SidsWritten(c.rule.raw_rule) = <<Num(c.rule.sid)>>

\* C37: in a process whose configuration config.validate accepts, the
\* default result the analyzer returns after its retries are exhausted never
\* leads to a rule.  Violated: the default result has confidence 0.5, and a
\* threshold of 0.5 or less is accepted.
C37_DefaultResultGivesNoRule ==
    validate(config_confidence_threshold) =>
       \A i \in DOMAIN synth.calls :
          synth.calls[i].analysis = DefaultResult => synth.calls[i].kind # "rule"

(***************************************************************************)
(* Properties of the runner's count of generated rules.                    *)
(***************************************************************************)
\* C36: after any sequence of deployments stats['rules_generated'] is the
\* number of rules appended to the rules file by add_rules calls that
\* returned True, and the rule history holds no more entries than that; a
\* batch whose candidates were all rejected adds nothing to either.
\* Violated: the runner counts and saves new_rules, the candidates, and
\* add_rules returns True when it rejected them all.
C36_CountsDeployedRules ==
    depPc = "idle" =>
       /\ applied.rules_generated = applied.deployed
       /\ applied.rule_history <= applied.deployed

(***************************************************************************)
(* Properties of the alerts of overlapping flushes.                        *)
(***************************************************************************)
\* C34: an alert that is part of a flush in progress is never included in
\* another flush, so no alert is dispatched to the analysis twice.
\* Violated: a flush leaves the window as it is until it ends, and the
\* other task starts its flush over the same window.
C34_NoAlertInTwoFlushes ==
    \A t1, t2 \in Tasks :
        (t1 # t2 /\ FlushInProgress(t1) /\ FlushInProgress(t2)) =>
            Range(flush[t1].items) \cap Range(flush[t2].items) = {}

\* C35: an alert that is in the window and that no flush has taken (it was
\* appended while a flush was suspended on the analysis) is still in the
\* window after every step: the clearing of the window by the flush does not
\* discard it.  Violated: the flush ends with self.alert_batch = [].
C35_AppendedDuringFlushKept ==
    [][\A a \in Range(alert_batch) :
          a > flushedMax => a \in Range(alert_batch')]_vars

(***************************************************************************)
(* Properties of the configuration file.                                   *)
(***************************************************************************)
\* C33: the configuration from_file loads from the file to_file wrote has
\* every field of the saved configuration, each with the saved value (the
\* same text, the same number of the same type, or None), for defaults and
\* for fields changed from their defaults.
C33_LoadedEqualsSaved ==
    cfg.pc = "loaded" =>
       /\ DOMAIN cfg.loaded = Fields
       /\ \A key \in Fields : cfg.loaded[key] = cfg.config[key]

\* C33 witness: the configuration of the test (confidence_threshold 0.95,
\* ml_model_type "local") has been saved and loaded, and the loaded
\* threshold is 0.95.
C33_Witness ==
    /\ cfg.pc = "loaded"
    /\ cfg.config.confidence_threshold = FloatValue(95)
    /\ cfg.config.ml_model_type = Str("local")
    /\ cfg.loaded.confidence_threshold = FloatValue(95)

(***************************************************************************)
(* Properties of the history files.                                        *)
(***************************************************************************)
\* The entries of a file, as a set.
EntriesOf(file) == {file[i] : i \in DOMAIN file}
\* The file just written.
WrittenFile == IF hist.last.file = "analysis" THEN hist.analysis ELSE hist.rules

\* C31: a write of the analysis history or of the rule history leaves in
\* the file no entry older than max_history_days; the entries the file held
\* that are younger than max_history_days are kept, in their order, and the
\* new entries come after them.  Violated: the rule history is written
\* whole, whatever the age of its entries.
C31_WriteTrimsHistory ==
    hist.last.file # "none" =>
       LET Young(e) == hist.today - e.day < max_history_days
           kept == SelectSeq(hist.last.before, Young)
       IN /\ \A e \in EntriesOf(WrittenFile) : hist.today - e.day <= max_history_days
          /\ Len(WrittenFile) >= Len(kept) + Len(hist.last.added)
          /\ SubSeq(WrittenFile, 1, Len(kept)) = kept
          /\ SubSeq(WrittenFile, Len(WrittenFile) - Len(hist.last.added) + 1, Len(WrittenFile))
                = hist.last.added

(***************************************************************************)
(* Properties of the shutdown.                                             *)
(***************************************************************************)
\* run() has returned with its three tasks stopped, no flush inside
\* add_rules, and one final statistics write attempted.
RunReturned ==
    /\ runner.pc = "returned"
    /\ \A t \in RunnerTasks : runner.tasks[t] = "stopped"
    /\ \A t \in Tasks : flush[t].pc \in {"idle", "cancelled"}
    /\ runner.final_stats = 1

\* C32: after a shutdown signal is handled, the monitoring task, the
\* periodic flush checker and the statistics reporter eventually stop and
\* run() returns; a flush in flight has finished or was abandoned at its
\* await, never between the append and the end of add_rules; and the final
\* statistics write is attempted exactly once, before run() returns.
C32_ShutdownCompletes ==
    /\ (runner.signals > 0) ~> RunReturned
    /\ [](runner.pc = "returned" => RunReturned)
    /\ [](runner.final_stats = (IF runner.pc = "returned" THEN 1 ELSE 0))
    /\ [](\A t \in Tasks :
            flush[t].pc \in DeployPcs => runner.tasks[t] = "running")

\* C32 witness: run() has returned after two signals, the flush of the
\* periodic checker was abandoned at its await, and the final statistics
\* were written.
C32_Witness ==
    /\ RunReturned
    /\ runner.signals = 2
    /\ flush["batch"].pc = "cancelled"
    /\ runner.stats_written

====
